---- MODULE Spec2Model ----
(***************************************************************************)
(* Model of the purchase-order submission pipeline of nutanix-api-client:  *)
(* NutanixAPIClient.process_file (cli.py) driving JWTHandler.generate_token*)
(* (jwt_handler.py), XMLTransformer.transform_file (xml_transformer.py),   *)
(* APIClient.post_purchase_order / validate_response / save_response /     *)
(* extract_po_number (api_client.py) and FileArchiver (archiver.py).       *)
(*                                                                         *)
(* Texts (exception messages, response texts) are sequences of words; the  *)
(* Python test  "w" in msg  is Contains(msg, "w").  Time is in seconds.    *)
(***************************************************************************)
EXTENDS Integers, Sequences, FiniteSets, TLC

VARIABLES
    \* configuration (Config properties handed to the constructors)
    max_retries, retry_delay, timeout, expiry_minutes,
    \* the wall clock, in seconds
    now,
    \* the filesystem
    inputDir, successArchive, errorArchive, sidecars, outputDir,
    \* watch_directory: its local set of files done
    processed_files,
    \* process_file: position, argument, locals, return value
    pc, input_file, jwt_token, transformed_xml, response_xml, po_number,
    exc, exitCode,
    \* post_purchase_order: locals
    attempt, last_error,
    \* observation of the current run (not program state)
    runs, tokenGen, tokenCalls, sent, outcomes, lastOutcome, sleeps,
    failedStage, stageErr, archiveErrorCalls, archiveSuccessCalls,
    saveCalls, moveFailed, credentialUse,
    \* XMLTransformer: its lazily created logger
    xt_logger,
    \* direct calls of transform_string and extract_po_number: the text they
    \* start from, and the record of the calls made
    document, calls,
    \* whether the output directory exists
    outputThere,
    \* processes working on the same directories: the position and the locals
    \* of each, and the record of what they did
    procs, journal

cfgVars == <<max_retries, retry_delay, timeout, expiry_minutes>>
fsVars == <<inputDir, successArchive, errorArchive, sidecars, outputDir>>
localVars == <<input_file, jwt_token, transformed_xml, response_xml,
               po_number, exc, exitCode>>
postVars == <<attempt, last_error>>
obsVars == <<runs, tokenGen, tokenCalls, sent, outcomes, lastOutcome, sleeps,
             failedStage, stageErr, archiveErrorCalls, archiveSuccessCalls,
             saveCalls, moveFailed, credentialUse>>
callVars == <<document, calls>>
xtVars == <<xt_logger, document, calls>>
arVars == <<outputThere, procs, journal>>
vars == <<cfgVars, now, fsVars, processed_files, pc, localVars, postVars,
          obsVars, xtVars, arVars>>

----
\* Bounds of the model.

\* largest configured api_settings.max_retries explored (smallest is -1)
MaxRetriesCfg == 3
\* number of files one watch_directory session is followed through
MaxRuns == 2
\* number of direct calls of transform_string and extract_po_number made on
\* one document
MaxCalls == 3
\* number of cleanup commands run one after the other
MaxCleanups == 2
\* seconds the clock can advance between commands on the archive directories
MaxTicks == 1
\* files that are dropped into the input directory during a watch session
MaxArrivals == 1

\* Exit codes, cli.py
EXIT_SUCCESS == 0
EXIT_CONFIG_ERROR == 1
EXIT_AUTH_ERROR == 2
EXIT_API_ERROR == 3
EXIT_NETWORK_ERROR == 4

SecondsPerMinute == 60

\* config.py defaults
DefaultMaxRetries == 3
DefaultRetryDelay == 5
DefaultTimeout == 30
DefaultExpiryMinutes == 5

MaxRetriesChoices == (0 - 1)..MaxRetriesCfg
RetryDelayChoices == {DefaultRetryDelay, 60}
TimeoutChoices == {DefaultTimeout}
ExpiryMinutesChoices == {1, DefaultExpiryMinutes}

----
\* Texts.

Contains(msg, w) == \E i \in DOMAIN msg : msg[i] = w

None == "<none>"
NoElem == "<absent>"
NoText == <<>>

\* str.strip() on the element texts the model uses
Strip(s) ==
    CASE s = " pending " -> "pending"
      [] s = " REJECTED " -> "REJECTED"
      [] s = "  " -> ""
      [] OTHER -> s

\* str.lower() on the element texts the model uses
Lower(s) ==
    CASE s = "Rejected" -> "rejected"
      [] s = "REJECTED" -> "rejected"
      [] s = "Accepted" -> "accepted"
      [] s = "RECEIVED" -> "received"
      [] s = "Processing" -> "processing"
      [] s = "DistiPONumber" -> "distiponumber"
      [] OTHER -> s

----
\* Documents.  The text of a document is a sequence of tokens: the XML
\* declaration, start tags, end tags, empty-element tags, character data and
\* comments.  A tag has a prefix p ("" when it has none) and a local name n;
\* character data and comments carry their text in n.

Tok(k, p, n) == [k |-> k, p |-> p, n |-> n]
Decl == Tok("decl", "", "xml")
Open(p, n) == Tok("open", p, n)
Close(p, n) == Tok("close", p, n)
Empty(p, n) == Tok("empty", p, n)
Text(t) == Tok("text", "", t)
Comment(t) == Tok("comment", "", t)

NoPayload == <<>>

\* the prefixes of the markers 'soap:Envelope', 'soapenv:Envelope' and
\* 'SOAP-ENV:Envelope'
EnvelopePrefixes == {"soap", "soapenv", "SOAP-ENV"}

\* character data and comments of the model that spell a marker
MarkerTexts == {"see soap:Envelope"}

\* the text of token t holds one of the three markers
HoldsMarker(t) ==
    \/ t.k \in {"open", "close", "empty"}
        /\ t.n = "Envelope" /\ t.p \in EnvelopePrefixes
    \/ t.k \in {"text", "comment"} /\ t.n \in MarkerTexts

\* _has_soap_envelope gone wrong: 'soapenv:Envelope', the marker of the
\* template, is not looked for
_has_soap_envelope_NoSoapenv(xml_content) ==
    \E i \in DOMAIN xml_content :
        /\ HoldsMarker(xml_content[i])
        /\ xml_content[i].p # "soapenv"

\* xml_transformer.py:118-136: a substring test on the text
_has_soap_envelope(xml_content) ==
    \E i \in DOMAIN xml_content : HoldsMarker(xml_content[i])

\* the parser at token i with the open elements in stack, after roots root
\* elements were started
RECURSIVE ParsesFrom(_, _, _, _)
ParsesFrom(x, i, stack, roots) ==
    IF i > Len(x) THEN stack = <<>> /\ roots = 1
    ELSE LET t == x[i]
             starts == IF stack = <<>> THEN roots + 1 ELSE roots
         IN  CASE t.k = "decl" ->
                    i = 1 /\ ParsesFrom(x, i + 1, stack, roots)
               [] t.k = "comment" -> ParsesFrom(x, i + 1, stack, roots)
               [] t.k = "text" ->
                    stack # <<>> /\ ParsesFrom(x, i + 1, stack, roots)
               [] t.k = "open" ->
                    /\ stack # <<>> \/ roots = 0
                    /\ ParsesFrom(x, i + 1, Append(stack, t), starts)
               [] t.k = "empty" ->
                    /\ stack # <<>> \/ roots = 0
                    /\ ParsesFrom(x, i + 1, stack, starts)
               [] t.k = "close" ->
                    /\ stack # <<>>
                    /\ stack[Len(stack)].p = t.p
                    /\ stack[Len(stack)].n = t.n
                    /\ ParsesFrom(x, i + 1, SubSeq(stack, 1, Len(stack) - 1),
                                  roots)
               [] OTHER -> FALSE

\* xml_transformer.py:98-116: etree.fromstring accepts the text
_is_valid_xml(xml_content) == ParsesFrom(xml_content, 1, <<>>, 0)

\* the tokens of the root element of a well-formed text: the declaration and
\* the comments around the root element are not part of it
RootElement(x) ==
    LET tags == {i \in DOMAIN x : x[i].k \in {"open", "close", "empty"}}
        first == CHOOSE i \in tags : \A j \in tags : i <= j
        last == CHOOSE i \in tags : \A j \in tags : j <= i
    IN  SubSeq(x, first, last)

\* etree.tostring writes an element without content as an empty-element tag
RECURSIVE Serialize(_)
Serialize(s) ==
    IF Len(s) < 2 THEN s
    ELSE IF s[1].k = "open" /\ s[2].k = "close"
    THEN <<Empty(s[1].p, s[1].n)>> \o Serialize(SubSeq(s, 3, Len(s)))
    ELSE <<s[1]>> \o Serialize(Tail(s))

\* xml_transformer.py:24-34
SOAP_TEMPLATE(content) ==
    <<Decl, Open("soapenv", "Envelope"), Empty("soapenv", "Header"),
      Open("soapenv", "Body"), Open("tns", "GetPurchaseOrder")>>
    \o content
    \o <<Close("tns", "GetPurchaseOrder"), Close("soapenv", "Body"),
         Close("soapenv", "Envelope")>>

\* xml_transformer.py:138-188: the payload, or the error raised
_wrap_with_soap(xml_content) ==
    LET soap_xml == SOAP_TEMPLATE(Serialize(RootElement(xml_content)))
    IN  IF _is_valid_xml(soap_xml)
        THEN [ok |-> TRUE, value |-> soap_xml, err |-> NoText]
        ELSE [ok |-> FALSE, value |-> NoPayload,
              err |-> <<"Failed", "to", "wrap", "XML", "with", "SOAP",
                        "envelope:", "Generated", "SOAP", "XML", "is",
                        "invalid">>]

\* transform_string gone wrong: the text is wrapped without looking for an
\* envelope
transform_string_AlwaysWrap(xml_content) ==
    IF ~_is_valid_xml(xml_content)
    THEN [ok |-> FALSE, value |-> NoPayload,
          err |-> <<"Invalid", "XML", "syntax">>]
    ELSE _wrap_with_soap(xml_content)

\* transform_string gone wrong: a text that does not parse is passed on
transform_string_Lenient(xml_content) ==
    IF _has_soap_envelope(xml_content) \/ ~_is_valid_xml(xml_content)
    THEN [ok |-> TRUE, value |-> xml_content, err |-> NoText]
    ELSE _wrap_with_soap(xml_content)

\* xml_transformer.py:72-96: the payload, or the error raised
transform_string(xml_content) ==
    IF ~_is_valid_xml(xml_content)
    THEN [ok |-> FALSE, value |-> NoPayload,
          err |-> <<"Invalid", "XML", "syntax">>]
    ELSE IF _has_soap_envelope(xml_content)
    THEN [ok |-> TRUE, value |-> xml_content, err |-> NoText]
    ELSE _wrap_with_soap(xml_content)

\* (?:\w+:)?  an optional prefix of word characters
WordPrefix(p) == p # "SOAP-ENV"

\* api_client.py:306: the regular expression matches at token i
PoMatchAt(x, i) ==
    /\ i + 2 <= Len(x)
    /\ x[i].k = "open" /\ x[i].n = "DistiPONumber" /\ WordPrefix(x[i].p)
    /\ x[i + 1].k = "text"
    /\ x[i + 2].k = "close" /\ x[i + 2].n = "DistiPONumber"
    /\ WordPrefix(x[i + 2].p)

\* api_client.py:293-314: re.search returns the leftmost match
extract_po_number(xml_content) ==
    LET hits == {i \in DOMAIN xml_content : PoMatchAt(xml_content, i)}
    IN  IF hits = {} THEN None
        ELSE xml_content[(CHOOSE i \in hits : \A j \in hits : i <= j) + 1].n

----
\* The documents the functions are applied to.

Roots ==
    { <<"", "DistiPODataRq">>, <<"tns", "GetPurchaseOrder">>,
      <<"soapenv", "Envelope">>, <<"soap", "Envelope">>,
      <<"SOAP-ENV", "Envelope">> }

\* the order-number element of a document: none, <DistiPONumber>,
\* <ns1:DistiPONumber>, <SOAP-ENV:DistiPONumber>, <distiponumber>, or one
\* without text
PoElement(v) ==
    CASE v = "plain" ->
            <<Open("", "DistiPONumber"), Text("PO123"),
              Close("", "DistiPONumber")>>
      [] v = "prefixed" ->
            <<Open("ns1", "DistiPONumber"), Text("PO123"),
              Close("ns1", "DistiPONumber")>>
      [] v = "dashed" ->
            <<Open("SOAP-ENV", "DistiPONumber"), Text("PO123"),
              Close("SOAP-ENV", "DistiPONumber")>>
      [] v = "lower" ->
            <<Open("", "distiponumber"), Text("PO123"),
              Close("", "distiponumber")>>
      [] v = "empty" ->
            <<Open("", "DistiPONumber"), Close("", "DistiPONumber")>>
      [] OTHER -> <<>>

PoVariants == {"none", "plain", "prefixed", "dashed", "lower", "empty"}

\* bare: the root element alone; declared: after an XML declaration;
\* trailing: followed by a comment; unclosed: its end tag is missing;
\* stray: character data before it
Shapes == {"bare", "declared", "trailing", "unclosed", "stray"}

Notes == { <<>>, <<Comment("see soap:Envelope")>> }

MakeDoc(root, po, shape, note) ==
    (IF shape = "declared" THEN <<Decl>> ELSE <<>>)
    \o (IF shape = "stray" THEN <<Text("hello")>> ELSE <<>>)
    \o <<Open(root[1], root[2])>> \o note \o PoElement(po)
    \o (IF shape = "unclosed" THEN <<>> ELSE <<Close(root[1], root[2])>>)
    \o (IF shape = "trailing" THEN <<Comment("end")>> ELSE <<>>)

Docs ==
    { MakeDoc(r, v, sh, nt) :
        r \in Roots, v \in PoVariants, sh \in Shapes, nt \in Notes }

----
\* Input files.

Paths ==
    {"order.xml", "wrapped.xml", "broken.xml", "torn.xml", "notes.txt",
     "ghost.xml"}

\* the files present in the input directory when the process starts
InitialInput == Paths \ {"ghost.xml"}

\* Path.stem
Stem(p) ==
    CASE p = "order.xml" -> "order"
      [] p = "wrapped.xml" -> "wrapped"
      [] p = "broken.xml" -> "broken"
      [] p = "torn.xml" -> "torn"
      [] p = "notes.txt" -> "notes"
      [] p = "other/order.xml" -> "order"
      [] p = "reorder.xml" -> "reorder"
      [] OTHER -> "ghost"

\* Path.suffix
Suffix(p) == IF p = "notes.txt" THEN ".txt" ELSE ".xml"

\* the text of file p: an order without an envelope, an enveloped order
\* without an order number, an order whose root element is not closed, an
\* envelope that is not closed, and a file that is not XML
DocOf(p) ==
    CASE p = "order.xml" ->
            MakeDoc(<<"", "DistiPODataRq">>, "plain", "declared", <<>>)
      [] p = "wrapped.xml" ->
            SOAP_TEMPLATE(<<Empty("", "DistiPODataRq")>>)
      [] p = "broken.xml" ->
            MakeDoc(<<"", "DistiPODataRq">>, "plain", "unclosed", <<>>)
      [] p = "torn.xml" ->
            MakeDoc(<<"soapenv", "Envelope">>, "none", "unclosed", <<>>)
      [] p = "notes.txt" -> <<Text("hello")>>
      [] OTHER -> <<>>

\* archiver.py:171-231: the file exists and its first line starts with '<'
validate_xml_file(p, dir) ==
    /\ p \in dir
    /\ DocOf(p) # <<>>
    /\ DocOf(p)[1].k # "text"

\* xml_transformer.py transform_file: every failure becomes XMLTransformError
transform_file(p, dir) ==
    IF p \notin dir
    THEN [ok |-> FALSE, value |-> NoPayload,
          err |-> <<"XML", "file", "not", "found:", p>>]
    ELSE LET r == transform_string(DocOf(p))
         IN  IF r.ok THEN r
             ELSE [r EXCEPT !.err = <<"Error", "reading", "XML", "file:">> \o r.err]

----
\* Responses.  A body is described by what validate_response finds in it:
\* whether it parses, and the texts of the elements at the fixed paths
\* Response/TxStatus, Response/fault/Errorcode, Response/fault/Errordetail
\* and Response/TransactionID (NoElem: no such element).

Body(parses, tx, code, detail, txid) ==
    [parses |-> parses, tx |-> tx, code |-> code, detail |-> detail,
     txid |-> txid]

NoBody == Body(FALSE, NoElem, NoElem, NoElem, NoElem)

SuccessBodies ==
    { Body(FALSE, NoElem, NoElem, NoElem, NoElem),
      Body(TRUE, NoElem, NoElem, NoElem, NoElem),
      Body(TRUE, "Accepted", NoElem, NoElem, "TX1"),
      Body(TRUE, "RECEIVED", NoElem, NoElem, NoElem),
      Body(TRUE, " pending ", NoElem, NoElem, NoElem),
      Body(TRUE, "Processing", "E42", "Invalid SKU", NoElem),
      Body(TRUE, "", NoElem, NoElem, NoElem) }

RejectedBodies ==
    { Body(TRUE, "Rejected", "E42", "Invalid SKU", "TX1"),
      Body(TRUE, " REJECTED ", "E42", NoElem, NoElem),
      Body(TRUE, "Rejected", NoElem, "  ", "TX1"),
      Body(TRUE, "Rejected", NoElem, NoElem, NoElem),
      Body(TRUE, "Rejected", "401", "Invalid SKU", NoElem) }

Bodies == SuccessBodies \cup RejectedBodies

\* response.text of a non-200 response
ErrorTexts == { <<"Service", "Unavailable">> }

\* str(e) of a requests exception
ExceptionTexts == { <<"Max", "retries", "exceeded">> }

ErrorStatuses == {204, 400, 401, 403, 404, 500, 503}

\* f"{response.status_code}"
StatusText(s) ==
    CASE s = 204 -> "204" [] s = 400 -> "400" [] s = 401 -> "401"
      [] s = 403 -> "403" [] s = 404 -> "404" [] s = 500 -> "500"
      [] s = 503 -> "503" [] OTHER -> "200"

\* what one requests.post call can come back with
Outcomes ==
    { [kind |-> "http", status |-> 200, body |-> b, text |-> NoText] :
        b \in Bodies }
    \cup { [kind |-> "http", status |-> s, body |-> NoBody, text |-> t] :
        s \in ErrorStatuses, t \in ErrorTexts }
    \cup { [kind |-> k, status |-> 0, body |-> NoBody, text |-> t] :
        k \in {"Timeout", "ConnectionError", "RequestException"},
        t \in ExceptionTexts }

\* what the endpoint of a watch session answers: acceptance, rejection,
\* a server error, an authentication failure, or nothing in time
SessionOutcomes ==
    { o \in Outcomes :
        \/ o.kind = "Timeout"
        \/ o.kind = "http" /\ o.status \in {401, 503}
        \/ o.kind = "http" /\ o.status = 200
            /\ o.body \in { Body(TRUE, "Accepted", NoElem, NoElem, "TX1"),
                            Body(TRUE, "Rejected", "E42", "Invalid SKU", "TX1") } }

NoOutcome == [kind |-> "none", status |-> 0, body |-> NoBody, text |-> NoText]

\* text[:n]; texts are measured in words here
Truncate(text, n) ==
    IF Len(text) <= n THEN text ELSE SubSeq(text, 1, n)

\* elem.text.strip() if elem is not None and elem.text else ""
ElemValue(e) == IF e = NoElem \/ e = "" THEN "" ELSE Strip(e)

\* api_client.py validate_response, the message of the rejection
RejectedMessage(body) ==
    LET error_code == ElemValue(body.code)
        error_detail == ElemValue(body.detail)
        transaction_id == ElemValue(body.txid)
    IN  <<"Purchase", "Order", "REJECTED", "by", "Nutanix", "API">>
        \o (IF transaction_id # ""
            THEN <<"Transaction", "ID:", transaction_id>> ELSE <<>>)
        \o (IF error_code # ""
            THEN <<"Error", "Code:", error_code>> ELSE <<>>)
        \o (IF error_detail # ""
            THEN <<"Error", "Detail:", error_detail>>
            ELSE <<"No", "error", "details", "provided">>)

\* the status validate_response compares: tx_status.lower()
TxStatusOf(body) == Lower(ElemValue(body.tx))

\* validate_response gone wrong: the status is compared without lower()
validate_response_CaseSensitive(body) ==
    IF ~body.parses THEN NoText
    ELSE IF body.tx = NoElem THEN NoText
    ELSE IF ElemValue(body.tx) = "rejected" THEN RejectedMessage(body)
    ELSE NoText

\* validate_response gone wrong: a status it does not know is an error
validate_response_Strict(body) ==
    IF ~body.parses THEN NoText
    ELSE IF body.tx = NoElem THEN NoText
    ELSE IF TxStatusOf(body) \notin {"received", "accepted", "pending"}
    THEN RejectedMessage(body)
    ELSE NoText

\* validate_response gone wrong: a body that does not parse is an error
validate_response_Unparsed(body) ==
    IF ~body.parses THEN <<"Could", "not", "validate", "response", "XML">>
    ELSE IF body.tx = NoElem THEN NoText
    ELSE IF TxStatusOf(body) = "rejected" THEN RejectedMessage(body)
    ELSE NoText

\* api_client.py validate_response: NoText when it returns, else the
\* message of the APIError it raises
validate_response(body) ==
    IF ~body.parses THEN NoText
    ELSE IF body.tx = NoElem THEN NoText
    ELSE IF TxStatusOf(body) = "rejected" THEN RejectedMessage(body)
    ELSE NoText

----
\* post_purchase_order: what one attempt's outcome leads to.

\* f"{self.timeout}"
SecondsText(t) == IF t = DefaultTimeout THEN "30" ELSE "other"

\* api_client.py:105  response.status_code >= 500
IsServerError(status) == status >= 500

\* LoopGuard gone wrong: the loop is entered once whatever max_retries is
LoopGuard_Inclusive(att, maxr) == att <= maxr

\* api_client.py:71  while attempt < self.max_retries
LoopGuard(att, maxr) == att < maxr

\* MayRetry gone wrong: the last retry is given up
MayRetry_OffByOne(att, maxr) == att < maxr - 1

\* MayRetry gone wrong: the call sleeps after its last attempt as well
MayRetry_AfterLast(att, maxr) == att <= maxr

\* api_client.py:113, 139, 149  if attempt < self.max_retries
MayRetry(att, maxr) == att < maxr

Msg401 ==
    <<"Authentication", "failed", "HTTP", "401", "Check", "JWT", "token",
      "configuration">>
Msg403 ==
    <<"Access", "forbidden", "HTTP", "403", "Check", "customer", "ID",
      "and", "permissions">>
Msg400(text) ==
    <<"Bad", "request", "HTTP", "400", "Invalid", "XML", "or", "request",
      "format", "Response:">> \o Truncate(text, 500)
Msg5xx(status, text) ==
    <<"Server", "error", "HTTP", StatusText(status), "Response:">>
    \o Truncate(text, 200)
MsgUnexpected(status, text) ==
    <<"Unexpected", "response", "HTTP", StatusText(status)>>
    \o Truncate(text, 500)
MsgTimeout(tmo) == <<"Request", "timeout", "after", SecondsText(tmo), "seconds">>
MsgConnection(text) == <<"Connection", "error:">> \o text
MsgRequestFailed(text) == <<"HTTP", "request", "failed:">> \o text
MsgExhausted == <<"Request", "failed", "after", "all", "retry", "attempts">>

\* act: what the branch does; msg: the text of its APIError; setsLast: the
\* branch assigns last_error; body: the value returned
Raise(msg) ==
    [act |-> "raise", msg |-> msg, setsLast |-> FALSE, body |-> NoBody]
\* RetryOrRaise gone wrong: the first transient error is kept and raised
RetryOrRaise_FirstError(msg, att, maxr) ==
    [act |-> IF MayRetry(att, maxr) THEN "retry" ELSE "raise",
     msg |-> IF last_error # NoText THEN last_error ELSE msg,
     setsLast |-> TRUE, body |-> NoBody]

RetryOrRaise(msg, att, maxr) ==
    [act |-> IF MayRetry(att, maxr) THEN "retry" ELSE "raise",
     msg |-> msg, setsLast |-> TRUE, body |-> NoBody]
ReturnBody(body) ==
    [act |-> "return", msg |-> NoText, setsLast |-> FALSE, body |-> body]

\* OnResponse gone wrong: a 403 is retried like a server error
OnResponse_Retry403(o, att, maxr) ==
    IF o.status = 401 THEN Raise(Msg401)
    ELSE IF o.status = 403 THEN RetryOrRaise(Msg403, att, maxr)
    ELSE IF o.status = 400 THEN Raise(Msg400(o.text))
    ELSE IF IsServerError(o.status)
    THEN RetryOrRaise(Msg5xx(o.status, o.text), att, maxr)
    ELSE IF o.status # 200 THEN Raise(MsgUnexpected(o.status, o.text))
    ELSE IF validate_response(o.body) # NoText
    THEN Raise(validate_response(o.body))
    ELSE ReturnBody(o.body)

\* api_client.py:89-131, the branches on the status of a received response
OnResponse(o, att, maxr) ==
    IF o.status = 401 THEN Raise(Msg401)
    ELSE IF o.status = 403 THEN Raise(Msg403)
    ELSE IF o.status = 400 THEN Raise(Msg400(o.text))
    ELSE IF IsServerError(o.status)
    THEN RetryOrRaise(Msg5xx(o.status, o.text), att, maxr)
    ELSE IF o.status # 200 THEN Raise(MsgUnexpected(o.status, o.text))
    ELSE IF validate_response(o.body) # NoText
    THEN Raise(validate_response(o.body))
    ELSE ReturnBody(o.body)

\* OnException gone wrong: a connection failure is not retried
OnException_ConnectionTerminal(o, att, maxr, tmo) ==
    IF o.kind = "Timeout" THEN RetryOrRaise(MsgTimeout(tmo), att, maxr)
    ELSE IF o.kind = "ConnectionError" THEN Raise(MsgConnection(o.text))
    ELSE Raise(MsgRequestFailed(o.text))

\* api_client.py:133-156, the except clauses
OnException(o, att, maxr, tmo) ==
    IF o.kind = "Timeout" THEN RetryOrRaise(MsgTimeout(tmo), att, maxr)
    ELSE IF o.kind = "ConnectionError"
    THEN RetryOrRaise(MsgConnection(o.text), att, maxr)
    ELSE Raise(MsgRequestFailed(o.text))

\* one pass of the loop body after requests.post came back with o
Classify(o, att, maxr, tmo) ==
    IF o.kind = "http" THEN OnResponse(o, att, maxr)
    ELSE OnException(o, att, maxr, tmo)

\* how an outcome is recorded in the run's observation
OutcomeClass(o) ==
    IF o.kind # "http" THEN o.kind
    ELSE IF o.status = 200
    THEN (IF validate_response(o.body) # NoText THEN "rejected" ELSE "ok")
    ELSE IF o.status >= 500 THEN "5xx"
    ELSE StatusText(o.status)

\* cli.py:153-159, the exit code of a failed submission
ExitCodeForAPIError(error_msg) ==
    IF Contains(error_msg, "Authentication") \/ Contains(error_msg, "401")
    THEN EXIT_AUTH_ERROR
    ELSE IF Contains(error_msg, "Connection") \/ Contains(error_msg, "Timeout")
    THEN EXIT_NETWORK_ERROR
    ELSE EXIT_API_ERROR

----
\* Credentials.

\* A credential is the claims set it signs: issuer and subject are fixed by
\* the configuration, and the RS256 signature is a function of the claims.

NoToken == [iat |-> 0, exp |-> 0]

\* NewToken gone wrong: the issue time is taken once, when the handler is
\* constructed
NewToken_AtConstruction(t, minutes) ==
    [iat |-> 0, exp |-> minutes * SecondsPerMinute]

\* jwt_handler.py:66-76: the token signed at time t
NewToken(t, minutes) ==
    [iat |-> t, exp |-> t + minutes * SecondsPerMinute]

\* api_client.py:62-85: the request of one attempt
Request(token, payload, t) ==
    [token |-> token, payload |-> payload, at |-> t]

MsgSigning == <<"Failed", "to", "generate", "JWT", "token:", "bad", "key">>
MsgValidation == <<"Input", "file", "validation", "failed">>
MsgMove == <<"No", "such", "file", "or", "permission", "denied">>
MsgSave == <<"Failed", "to", "save", "response:", "disk", "error">>

----
\* Archive names.

\* archiver.py:95-97  <stem>_<timestamp><suffix>
ArchivedName(p, t) == [stem |-> Stem(p), ts |-> t, suffix |-> Suffix(p)]

\* archiver.py:68  archived_file.with_suffix('.error.txt')
SidecarName(archived) == [archived EXCEPT !.suffix = ".error.txt"]

\* ResponseName gone wrong: the order number is not used
ResponseName_AlwaysTimestamp(po, t) == [id |-> None, ts |-> t]

\* api_client.py:275-279  response_<po>.xml or response_<timestamp>.xml
ResponseName(po, t) ==
    IF po # None /\ po # "" THEN [id |-> po, ts |-> 0] ELSE [id |-> None, ts |-> t]

----
\* The state after NutanixAPIClient.__init__ (cli.py:35-105).

\* the clock and the directories when the process starts
InitFiles ==
    /\ now = 0
    /\ inputDir = InitialInput
    /\ successArchive = {}
    /\ errorArchive = {}
    /\ sidecars = {}
    /\ outputDir = {}

\* no run of process_file has begun
InitIdle ==
    /\ processed_files = {}
    /\ pc = "idle"
    /\ input_file = "ghost.xml"
    /\ jwt_token = NoToken
    /\ transformed_xml = NoPayload
    /\ response_xml = NoBody
    /\ po_number = None
    /\ exc = NoText
    /\ exitCode = EXIT_SUCCESS
    /\ attempt = 0
    /\ last_error = NoText
    /\ runs = 0
    /\ tokenGen = 0
    /\ tokenCalls = 0
    /\ sent = <<>>
    /\ outcomes = <<>>
    /\ lastOutcome = NoOutcome
    /\ sleeps = 0
    /\ failedStage = "none"
    /\ stageErr = NoText
    /\ archiveErrorCalls = <<>>
    /\ archiveSuccessCalls = 0
    /\ saveCalls = 0
    /\ moveFailed = FALSE
    /\ credentialUse = {}
    /\ xt_logger = None

InitState == InitFiles /\ InitIdle

\* no direct call of the transformer or of extract_po_number is made
NoCalls ==
    /\ document = <<>>
    /\ calls = <<>>

\* config.py:219-233 has created the output directory, and no other process
\* works on the directories
NoProcs ==
    /\ outputThere = TRUE
    /\ procs = <<>>
    /\ journal = <<>>

\* any configuration: config.py validates none of these four values
Init ==
    /\ max_retries \in MaxRetriesChoices
    /\ retry_delay \in RetryDelayChoices
    /\ timeout \in TimeoutChoices
    /\ expiry_minutes \in ExpiryMinutesChoices
    /\ InitState
    /\ NoCalls
    /\ NoProcs

\* the defaults of config.py:157, 202, 207, 212
InitDefaults ==
    /\ max_retries = DefaultMaxRetries
    /\ retry_delay = DefaultRetryDelay
    /\ timeout = DefaultTimeout
    /\ expiry_minutes = DefaultExpiryMinutes
    /\ InitState
    /\ NoCalls
    /\ NoProcs

\* an exception with text msg is raised by stage "stage"; the first one of a
\* run is remembered
Fail(stage, msg) ==
    /\ exc' = msg
    /\ failedStage' = IF failedStage = "none" THEN stage ELSE failedStage
    /\ stageErr' = IF failedStage = "none" THEN msg ELSE stageErr

NoFail == UNCHANGED <<exc, failedStage, stageErr>>

\* process_file(p) is entered
Enter(p) ==
    /\ pc = "idle"
    /\ runs' = runs + 1
    /\ input_file' = p
    /\ pc' = "validate"
    /\ UNCHANGED <<cfgVars, xtVars, arVars, now, fsVars, processed_files, jwt_token,
                   transformed_xml, response_xml, po_number, exc, exitCode,
                   postVars, tokenGen, tokenCalls, sent, outcomes, lastOutcome, sleeps,
                   failedStage, stageErr, archiveErrorCalls,
                   archiveSuccessCalls, saveCalls, moveFailed, credentialUse>>

\* cli.py:243-245  cmd_process: one process_file(Path(args.input)) per process
StartRun(p) == runs = 0 /\ Enter(p)

\* cli.py:213-220  watch_directory: the next *.xml file of the input
\* directory that is not in processed_files
WatchStart(p) ==
    /\ runs < MaxRuns
    /\ p \in inputDir
    /\ Suffix(p) = ".xml"
    /\ p \notin processed_files
    /\ Enter(p)

\* Validate gone wrong: a rejected input is logged and the run goes on
Validate_LogsOnly ==
    /\ pc = "validate"
    /\ pc' = "gen_token"
    /\ UNCHANGED <<cfgVars, xtVars, arVars, now, fsVars, processed_files,
                   localVars, postVars, obsVars>>

\* cli.py:122-124
Validate ==
    /\ pc = "validate"
    /\ IF validate_xml_file(input_file, inputDir)
       THEN pc' = "gen_token" /\ NoFail
       ELSE pc' = "h_outer" /\ Fail("validate", MsgValidation)
    /\ UNCHANGED <<cfgVars, xtVars, arVars, now, fsVars, processed_files, input_file, jwt_token,
                   transformed_xml, response_xml, po_number, exitCode,
                   postVars, runs, tokenGen, tokenCalls, sent, outcomes, lastOutcome,
                   sleeps, archiveErrorCalls, archiveSuccessCalls, saveCalls,
                   moveFailed, credentialUse>>

\* GenerateToken gone wrong: a failed signing is tried a second time
GenerateToken_SignAgain ==
    /\ pc = "gen_token"
    /\ \E signed \in BOOLEAN :
        IF signed
        THEN /\ tokenCalls' = tokenCalls + 1
             /\ tokenGen' = tokenGen + 1
             /\ jwt_token' = NewToken(now, expiry_minutes)
             /\ pc' = "transform"
             /\ NoFail
        ELSE /\ tokenCalls' = tokenCalls + 2
             /\ UNCHANGED <<tokenGen, jwt_token>>
             /\ pc' = "h_jwt"
             /\ Fail("token", MsgSigning)
    /\ UNCHANGED <<cfgVars, xtVars, arVars, now, fsVars, processed_files, input_file,
                   transformed_xml, response_xml, po_number, exitCode,
                   postVars, runs, sent, outcomes, lastOutcome, sleeps,
                   archiveErrorCalls, archiveSuccessCalls, saveCalls,
                   moveFailed, credentialUse>>

\* cli.py:126-130 with jwt_handler.py:55-87
GenerateToken ==
    /\ pc = "gen_token"
    /\ tokenCalls' = tokenCalls + 1
    /\ \E signed \in BOOLEAN :
        IF signed
        THEN /\ tokenGen' = tokenGen + 1
             /\ jwt_token' = NewToken(now, expiry_minutes)
             /\ pc' = "transform"
             /\ NoFail
        ELSE /\ UNCHANGED <<tokenGen, jwt_token>>
             /\ pc' = "h_jwt"
             /\ Fail("token", MsgSigning)
    /\ UNCHANGED <<cfgVars, xtVars, arVars, now, fsVars, processed_files, input_file, transformed_xml,
                   response_xml, po_number, exitCode, postVars, runs, sent,
                   outcomes, lastOutcome, sleeps, archiveErrorCalls, archiveSuccessCalls,
                   saveCalls, moveFailed, credentialUse>>

\* cli.py:135-139 with xml_transformer.py:47-70, then api_client.py:62-69
Transform ==
    /\ pc = "transform"
    /\ LET r == transform_file(input_file, inputDir)
       IN  IF r.ok
           THEN /\ transformed_xml' = r.value
                /\ pc' = "post_loop"
                /\ NoFail
           ELSE /\ UNCHANGED transformed_xml
                /\ pc' = "h_xml"
                /\ Fail("transform", r.err)
    /\ xt_logger' = IF input_file \in inputDir THEN "logger" ELSE xt_logger
    /\ attempt' = 0
    /\ last_error' = NoText
    /\ UNCHANGED <<cfgVars, callVars, arVars, now, fsVars, processed_files, input_file, jwt_token, response_xml,
                   po_number, exitCode, runs, tokenGen, tokenCalls, sent,
                   outcomes, lastOutcome, sleeps, archiveErrorCalls, archiveSuccessCalls,
                   saveCalls, moveFailed, credentialUse>>

\* api_client.py:71-72 and 158-161: the loop test, and the code after the loop
PostLoop ==
    /\ pc = "post_loop"
    /\ IF LoopGuard(attempt, max_retries)
       THEN /\ attempt' = attempt + 1
            /\ pc' = "post_send"
            /\ NoFail
       ELSE /\ UNCHANGED attempt
            /\ pc' = "h_api"
            /\ Fail("post", IF last_error # NoText THEN last_error
                            ELSE MsgExhausted)
    /\ UNCHANGED <<cfgVars, xtVars, arVars, now, fsVars, processed_files, input_file, jwt_token,
                   transformed_xml, response_xml, po_number, exitCode,
                   last_error, runs, tokenGen, tokenCalls, sent, outcomes, lastOutcome,
                   sleeps, archiveErrorCalls, archiveSuccessCalls, saveCalls,
                   moveFailed, credentialUse>>

\* api_client.py:74-156: one requests.post that comes back with o, and what
\* that leads to
SendAttempt(o) ==
    /\ pc = "post_send"
    /\ LET c == Classify(o, attempt, max_retries, timeout)
       IN  /\ sent' = Append(sent, Request(jwt_token, transformed_xml, now))
           /\ credentialUse' =
                  credentialUse \cup {[token |-> jwt_token, run |-> runs]}
           /\ outcomes' = Append(outcomes, OutcomeClass(o))
           /\ lastOutcome' = o
           /\ now' = IF o.kind = "Timeout" THEN now + timeout ELSE now
           /\ last_error' = IF c.setsLast THEN c.msg ELSE last_error
           /\ CASE c.act = "return" ->
                       /\ response_xml' = c.body
                       /\ pc' = "save"
                       /\ NoFail
                [] c.act = "retry" ->
                       /\ UNCHANGED response_xml
                       /\ pc' = "post_sleep"
                       /\ NoFail
                [] OTHER ->
                       /\ UNCHANGED response_xml
                       /\ pc' = "h_api"
                       /\ Fail("post", c.msg)
    /\ UNCHANGED <<cfgVars, xtVars, arVars, fsVars, processed_files, input_file, jwt_token,
                   transformed_xml, po_number, exitCode, attempt, runs,
                   tokenGen, tokenCalls, sleeps, archiveErrorCalls,
                   archiveSuccessCalls, saveCalls, moveFailed>>

\* an attempt against an endpoint that can answer anything
PostSend == \E o \in Outcomes : SendAttempt(o)

\* an attempt against the endpoint of a watch session
WatchPostSend == \E o \in SessionOutcomes : SendAttempt(o)

\* api_client.py:114-115, 140-141, 150-151: time.sleep(retry_delay); continue
PostSleep ==
    /\ pc = "post_sleep"
    /\ now' = now + retry_delay
    /\ sleeps' = sleeps + 1
    /\ pc' = "post_loop"
    /\ UNCHANGED <<cfgVars, xtVars, arVars, fsVars, processed_files, localVars, postVars, runs, tokenGen,
                   tokenCalls, sent, outcomes, lastOutcome, failedStage, stageErr,
                   archiveErrorCalls, archiveSuccessCalls, saveCalls,
                   moveFailed, credentialUse>>

\* archiver.py:53-78 with 80-110: archive_error(input_file, msg).  moved:
\* shutil.move succeeded; written: the sidecar could be written
ArchiveError(msg, moved, written) ==
    /\ archiveErrorCalls' = Append(archiveErrorCalls, msg)
    /\ IF moved
       THEN /\ inputDir' = inputDir \ {input_file}
            /\ errorArchive' =
                   errorArchive \cup {ArchivedName(input_file, now)}
            /\ sidecars' =
                   IF msg # NoText /\ written
                   THEN {f \in sidecars :
                            f.name # SidecarName(ArchivedName(input_file, now))}
                        \cup {[name |-> SidecarName(ArchivedName(input_file, now)),
                               message |-> msg, original |-> input_file]}
                   ELSE sidecars
            /\ UNCHANGED moveFailed
       ELSE /\ UNCHANGED <<inputDir, errorArchive, sidecars>>
            /\ moveFailed' = TRUE
    /\ UNCHANGED <<successArchive, outputDir>>

\* shutil.move can succeed only on a file that is there
CanMove(moved) == moved => input_file \in inputDir

\* a stage's except clause: archive_error(input_file, str(e)); return code.
\* archive_error raising leaves the clause for the outer except Exception
StageHandler(code) ==
    \E moved, written \in BOOLEAN :
        /\ CanMove(moved)
        /\ ArchiveError(exc, moved, written)
        /\ IF moved
           THEN /\ exitCode' = code
                /\ pc' = "done"
                /\ NoFail
           ELSE /\ UNCHANGED exitCode
                /\ pc' = "h_outer"
                /\ Fail("archive_error", MsgMove)
        /\ UNCHANGED <<cfgVars, xtVars, arVars, now, processed_files, input_file, jwt_token,
                       transformed_xml, response_xml, po_number, postVars, runs, tokenGen,
                       tokenCalls, sent, outcomes, lastOutcome, sleeps,
                       archiveSuccessCalls, saveCalls, credentialUse>>

\* cli.py:130-133
HandleJWTError == pc = "h_jwt" /\ StageHandler(EXIT_AUTH_ERROR)

\* HandleXMLTransformError gone wrong: the error is logged and the run goes
\* on to step 3
HandleXMLTransformError_FallThrough ==
    /\ pc = "h_xml"
    /\ pc' = "post_loop"
    /\ UNCHANGED <<cfgVars, xtVars, arVars, now, fsVars, processed_files, localVars,
                   postVars, obsVars>>

\* cli.py:139-142
HandleXMLTransformError == pc = "h_xml" /\ StageHandler(EXIT_CONFIG_ERROR)

\* cli.py:148-159
HandleAPIError == pc = "h_api" /\ StageHandler(ExitCodeForAPIError(exc))

\* SaveResponse gone wrong: a failure to write the response is swallowed
SaveResponse_IgnoreFailure ==
    /\ pc = "save"
    /\ po_number' = extract_po_number(transformed_xml)
    /\ saveCalls' = saveCalls + 1
    /\ \E saved \in BOOLEAN :
        outputDir' =
            IF saved
            THEN {f \in outputDir : f.name # ResponseName(po_number', now)}
                 \cup {[name |-> ResponseName(po_number', now),
                        content |-> response_xml]}
            ELSE outputDir
    /\ pc' = "archive"
    /\ NoFail
    /\ UNCHANGED <<cfgVars, xtVars, arVars, now, inputDir, successArchive, errorArchive,
                   sidecars, processed_files, input_file, jwt_token, transformed_xml,
                   response_xml, exitCode, postVars, runs, tokenGen,
                   tokenCalls, sent, outcomes, lastOutcome, sleeps, archiveErrorCalls,
                   archiveSuccessCalls, moveFailed, credentialUse>>

\* cli.py:164-172 with api_client.py:254-314
SaveResponse ==
    /\ pc = "save"
    /\ po_number' = extract_po_number(transformed_xml)
    /\ saveCalls' = saveCalls + 1
    /\ \E saved \in BOOLEAN :
        IF saved
        THEN /\ outputDir' =
                    {f \in outputDir : f.name # ResponseName(po_number', now)}
                    \cup {[name |-> ResponseName(po_number', now),
                           content |-> response_xml]}
             /\ pc' = "archive"
             /\ NoFail
        ELSE /\ UNCHANGED outputDir
             /\ pc' = "h_outer"
             /\ Fail("save", MsgSave)
    /\ UNCHANGED <<cfgVars, xtVars, arVars, now, inputDir, successArchive, errorArchive,
                   sidecars, processed_files, input_file, jwt_token, transformed_xml,
                   response_xml, exitCode, postVars, runs, tokenGen,
                   tokenCalls, sent, outcomes, lastOutcome, sleeps, archiveErrorCalls,
                   archiveSuccessCalls, moveFailed, credentialUse>>

\* cli.py:174-187 with archiver.py:41-51, 80-110
ArchiveSuccess ==
    /\ pc = "archive"
    /\ archiveSuccessCalls' = archiveSuccessCalls + 1
    /\ \E moved \in BOOLEAN :
        /\ CanMove(moved)
        /\ IF moved
           THEN /\ inputDir' = inputDir \ {input_file}
                /\ successArchive' =
                       successArchive \cup {ArchivedName(input_file, now)}
                /\ exitCode' = EXIT_SUCCESS
                /\ pc' = "done"
                /\ NoFail
                /\ UNCHANGED moveFailed
           ELSE /\ UNCHANGED <<inputDir, successArchive, exitCode>>
                /\ pc' = "h_outer"
                /\ Fail("archive_success", MsgMove)
                /\ moveFailed' = TRUE
    /\ UNCHANGED <<cfgVars, xtVars, arVars, now, errorArchive, sidecars, outputDir,
                   processed_files, input_file, jwt_token, transformed_xml, response_xml,
                   po_number, postVars, runs, tokenGen, tokenCalls, sent,
                   outcomes, lastOutcome, sleeps, archiveErrorCalls, saveCalls,
                   credentialUse>>

\* HandleUnexpected gone wrong: the error is logged but the file is not
\* archived
HandleUnexpected_NoArchive ==
    /\ pc = "h_outer"
    /\ exitCode' = EXIT_CONFIG_ERROR
    /\ pc' = "done"
    /\ UNCHANGED <<cfgVars, xtVars, arVars, now, fsVars, processed_files, input_file,
                   jwt_token, transformed_xml, response_xml, po_number, exc,
                   postVars, obsVars>>

\* HandleUnexpected gone wrong: archive_error is called outside a try, so
\* its exception leaves process_file
HandleUnexpected_Reraise ==
    /\ pc = "h_outer"
    /\ \E moved, written \in BOOLEAN :
        /\ CanMove(moved)
        /\ ArchiveError(exc, moved, written)
        /\ IF moved
           THEN exitCode' = EXIT_CONFIG_ERROR /\ pc' = "done"
           ELSE UNCHANGED exitCode /\ pc' = "raised"
    /\ UNCHANGED <<cfgVars, xtVars, arVars, now, processed_files, input_file, jwt_token,
                   transformed_xml, response_xml, po_number, exc, postVars, runs, tokenGen,
                   tokenCalls, sent, outcomes, lastOutcome, sleeps, failedStage, stageErr,
                   archiveSuccessCalls, saveCalls, credentialUse>>

\* cli.py:189-196: the outer except Exception
HandleUnexpected ==
    /\ pc = "h_outer"
    /\ \E moved, written \in BOOLEAN :
        /\ CanMove(moved)
        /\ ArchiveError(exc, moved, written)
    /\ exitCode' = EXIT_CONFIG_ERROR
    /\ pc' = "done"
    /\ UNCHANGED <<cfgVars, xtVars, arVars, now, processed_files, input_file, jwt_token,
                   transformed_xml, response_xml, po_number, exc, postVars, runs, tokenGen,
                   tokenCalls, sent, outcomes, lastOutcome, sleeps, failedStage, stageErr,
                   archiveSuccessCalls, saveCalls, credentialUse>>

\* cli.py:220-226  watch_directory after process_file returned: the file
\* is remembered on success, then time.sleep(1).  The locals of process_file
\* are gone, and the observation of the run ends
WatchReturn ==
    /\ pc = "done"
    /\ pc' = "idle"
    /\ processed_files' = IF exitCode = EXIT_SUCCESS
                          THEN processed_files \cup {input_file}
                          ELSE processed_files
    /\ now' = now + 1
    /\ input_file' = "ghost.xml"
    /\ jwt_token' = NoToken
    /\ transformed_xml' = NoPayload
    /\ response_xml' = NoBody
    /\ po_number' = None
    /\ exc' = NoText
    /\ exitCode' = EXIT_SUCCESS
    /\ attempt' = 0
    /\ last_error' = NoText
    /\ tokenCalls' = 0
    /\ sent' = <<>>
    /\ outcomes' = <<>>
    /\ lastOutcome' = NoOutcome
    /\ sleeps' = 0
    /\ failedStage' = "none"
    /\ stageErr' = NoText
    /\ archiveErrorCalls' = <<>>
    /\ archiveSuccessCalls' = 0
    /\ saveCalls' = 0
    /\ moveFailed' = FALSE
    /\ UNCHANGED <<cfgVars, xtVars, arVars, fsVars, runs, tokenGen, credentialUse>>

\* the steps of one process_file call, but for the requests
RunStep ==
    \/ Validate
    \/ GenerateToken
    \/ HandleJWTError
    \/ Transform
    \/ HandleXMLTransformError
    \/ PostLoop
    \/ PostSleep
    \/ HandleAPIError
    \/ SaveResponse
    \/ ArchiveSuccess
    \/ HandleUnexpected

\* process --input FILE: one run, under any configuration
Next ==
    \/ \E p \in Paths : StartRun(p)
    \/ RunStep
    \/ PostSend

Spec == Init /\ [][Next]_vars

\* process --watch: a session of runs, under the default configuration
NextWatch ==
    \/ \E p \in Paths : WatchStart(p)
    \/ RunStep
    \/ WatchPostSend
    \/ WatchReturn

SpecWatch == InitDefaults /\ [][NextWatch]_vars

\* the files that can be dropped into the input directory while the session
\* runs: an order, also under the name of one that was there before, and a
\* file that does not parse
ArrivingPaths == {"order.xml", "broken.xml"}

\* cli.py:213: a file written into the input directory is listed by the
\* next glob('*.xml') of the loop
Arrive(p) ==
    /\ p \notin inputDir
    /\ Len(journal) < MaxArrivals
    /\ inputDir' = inputDir \cup {p}
    /\ journal' = Append(journal, [ev |-> "arrive", file |-> p, at |-> now])
    /\ UNCHANGED <<cfgVars, xtVars, outputThere, procs, now, successArchive,
                   errorArchive, sidecars, outputDir, processed_files, pc,
                   localVars, postVars, obsVars>>

\* a watch session that starts on an input directory holding one order
InitArrivals ==
    /\ max_retries = DefaultMaxRetries
    /\ retry_delay = DefaultRetryDelay
    /\ timeout = DefaultTimeout
    /\ expiry_minutes = DefaultExpiryMinutes
    /\ now = 0
    /\ inputDir = {"order.xml"}
    /\ successArchive = {}
    /\ errorArchive = {}
    /\ sidecars = {}
    /\ outputDir = {}
    /\ InitIdle
    /\ NoCalls
    /\ NoProcs

NextArrivals ==
    \/ NextWatch
    \/ \E p \in ArrivingPaths : Arrive(p)

\* the steps of a watch session other than the transformation
PollingSteps ==
    \/ \E p \in Paths : WatchStart(p)
    \/ Validate
    \/ GenerateToken
    \/ HandleJWTError
    \/ HandleXMLTransformError
    \/ PostLoop
    \/ PostSleep
    \/ HandleAPIError
    \/ SaveResponse
    \/ ArchiveSuccess
    \/ HandleUnexpected
    \/ WatchPostSend
    \/ WatchReturn

\* cli.py:135-139: the transformation returns or raises; Transform is the
\* only step that leaves pc = "transform", and it is always enabled there
TransformReturns == pc = "transform" /\ pc' \in {"post_loop", "h_xml"}

\* cli.py:211-229: the loop never stops polling and every call it makes
\* returns, so the session takes a step whenever it can; nothing makes files
\* arrive
SpecArrivals ==
    /\ InitArrivals
    /\ [][NextArrivals]_vars
    /\ WF_vars(PollingSteps)
    /\ WF_pc(TransformReturns)

----
\* transform_string and extract_po_number called directly, on any document.

\* the variables of the pipeline
runVars == <<cfgVars, now, fsVars, processed_files, pc, localVars, postVars,
             obsVars>>

\* the texts earlier transform_string calls returned
Payloads ==
    { calls[i].value :
        i \in {j \in DOMAIN calls :
                 calls[j].fn = "transform_string" /\ calls[j].ok} }

\* one call, as the caller sees it
Call(fn, arg, ok, value) ==
    [fn |-> fn, arg |-> arg, ok |-> ok, value |-> value]

\* CallTransformString gone wrong: a transformer that has been used before
\* no longer adds the envelope
CallTransformString_Stateful(x) ==
    /\ Len(calls) < MaxCalls
    /\ LET r == transform_string(x)
       IN  calls' =
             IF xt_logger # None /\ r.ok
             THEN Append(calls, Call("transform_string", x, TRUE, x))
             ELSE Append(calls, Call("transform_string", x, r.ok, r.value))
    /\ xt_logger' = "logger"
    /\ UNCHANGED <<runVars, arVars, document>>

\* xml_transformer.py:72-96: XMLTransformer.transform_string(x); every path
\* through it logs, which creates the logger
CallTransformString(x) ==
    /\ Len(calls) < MaxCalls
    /\ LET r == transform_string(x)
       IN  calls' = Append(calls, Call("transform_string", x, r.ok, r.value))
    /\ xt_logger' = "logger"
    /\ UNCHANGED <<runVars, arVars, document>>

\* api_client.py:293-314: APIClient.extract_po_number(x)
CallExtractPoNumber(x) ==
    /\ Len(calls) < MaxCalls
    /\ calls' = Append(calls, Call("extract_po_number", x, TRUE,
                                   extract_po_number(x)))
    /\ UNCHANGED <<runVars, arVars, xt_logger, document>>

TransformDocument == CallTransformString(document)
TransformPayload == \E x \in Payloads : CallTransformString(x)
ExtractFromDocument == CallExtractPoNumber(document)
ExtractFromPayload == \E x \in Payloads : CallExtractPoNumber(x)

InitTransform ==
    /\ max_retries = DefaultMaxRetries
    /\ retry_delay = DefaultRetryDelay
    /\ timeout = DefaultTimeout
    /\ expiry_minutes = DefaultExpiryMinutes
    /\ InitState
    /\ document \in Docs
    /\ calls = <<>>
    /\ NoProcs

NextTransform ==
    \/ TransformDocument
    \/ TransformPayload
    \/ ExtractFromDocument
    \/ ExtractFromPayload

SpecTransform == InitTransform /\ [][NextTransform]_vars

----
\* The archive directories as the cleanup command sees them.

\* archiver.py:123  timedelta(days=days), in seconds
SecondsPerDay == 86400

\* cli.py:345-350  --older-than, in the commands of the model
RetentionDays == 1

\* the clock when the commands on the archive directories start, and the
\* cutoff of a cleanup started at that time
StartTime == RetentionDays * SecondsPerDay + 10
StartCutoff == StartTime - RetentionDays * SecondsPerDay

FileName(stem, ts, suffix) == [stem |-> stem, ts |-> ts, suffix |-> suffix]

\* an entry of an archive directory: a regular file or a directory, directly
\* inside the archive directory (parent "") or inside one of its
\* subdirectories, with st_mtime and st_size
Entry(name, kind, parent, mtime, size) ==
    [name |-> name, kind |-> kind, parent |-> parent, mtime |-> mtime,
     size |-> size]

\* what the success archive can hold: a file older than the cutoff, one
\* modified exactly at the cutoff, a newer one, a subdirectory and an old
\* file inside it
SuccessCandidates ==
    { Entry(FileName("order", 1, ".xml"), "file", "", StartCutoff - 1, 100),
      Entry(FileName("order", 2, ".xml"), "file", "", StartCutoff, 20),
      Entry(FileName("order", 3, ".xml"), "file", "", StartCutoff + 1, 3),
      Entry(FileName("kept", 0, ""), "dir", "", StartCutoff - 1, 0),
      Entry(FileName("inner", 0, ".xml"), "file", "kept", StartCutoff - 1, 7) }

\* what the failure archive can hold: an old file and its sidecar
ErrorCandidates ==
    { Entry(FileName("broken", 1, ".xml"), "file", "", StartCutoff - 1, 50),
      Entry(FileName("broken", 1, ".error.txt"), "file", "", StartCutoff - 1,
            5) }

\* a file inside a subdirectory is there only with the subdirectory
Consistent(dir) ==
    \A e \in dir : e.parent # "" =>
        \E d \in dir : d.kind = "dir" /\ d.parent = "" /\ d.name.stem = e.parent

ArchiveOf(d) == IF d = "success" THEN successArchive ELSE errorArchive

Snapshot == [success |-> successArchive, error |-> errorArchive]

\* archive_dir.glob('*'): the entries directly inside the directory, in the
\* order the directory gives them
RECURSIVE SeqOf(_)
SeqOf(S) ==
    IF S = {} THEN <<>>
    ELSE LET e == CHOOSE x \in S : TRUE IN <<e>> \o SeqOf(S \ {e})

Glob(d) == SeqOf({e.name : e \in {f \in ArchiveOf(d) : f.parent = ""}})

\* the entry now at path d/name, if any
At(d, name) == {e \in ArchiveOf(d) : e.parent = "" /\ e.name = name}

NoPath == [dir |-> "", name |-> FileName("", 0, "")]

\* a process that has not begun its task
NewProc(task, src, msg, po) ==
    [task |-> task, pc |-> "ready", run |-> 0,
     dry_run |-> FALSE, cutoff |-> 0, dirs |-> <<>>, listing |-> <<>>,
     cur |-> NoPath, file_size |-> 0, files_deleted |-> 0, size_freed |-> 0,
     src |-> src, msg |-> msg, po |-> po, moved |-> "no",
     archived |-> NoPath]

\* process i moves to position p
Goto(i, p) == [procs EXCEPT ![i].pc = p]

Log(event) == journal' = Append(journal, event)

\* archiver.py:123-130: cleanup_old_archives(days, dry_run) is entered
CleanupStart(i, days, dry) ==
    /\ procs[i].task = "cleanup"
    /\ procs[i].pc = "ready"
    /\ procs[i].run < MaxCleanups
    /\ procs' = [procs EXCEPT
                    ![i].pc = "next_dir",
                    ![i].run = @ + 1,
                    ![i].dry_run = dry,
                    ![i].cutoff = now - days * SecondsPerDay,
                    ![i].dirs = <<"success", "error">>,
                    ![i].listing = <<>>,
                    ![i].files_deleted = 0,
                    ![i].size_freed = 0]
    /\ Log([ev |-> "start", proc |-> i, run |-> procs[i].run + 1,
            dry_run |-> dry, cutoff |-> now - days * SecondsPerDay,
            before |-> Snapshot])
    /\ UNCHANGED <<runVars, xtVars, outputThere>>

\* archiver.py:132-136 and 160-168: the next archive directory is listed, or
\* the counts are returned
CleanupNextDir(i) ==
    /\ procs[i].task = "cleanup"
    /\ procs[i].pc = "next_dir"
    /\ IF procs[i].dirs = <<>>
       THEN /\ procs' = Goto(i, "ready")
            /\ Log([ev |-> "return", proc |-> i, run |-> procs[i].run,
                    dry_run |-> procs[i].dry_run, cutoff |-> procs[i].cutoff,
                    count |-> procs[i].files_deleted,
                    size |-> procs[i].size_freed, after |-> Snapshot])
       ELSE /\ procs' = [procs EXCEPT
                           ![i].pc = "next_file",
                           ![i].listing = Glob(Head(procs[i].dirs)),
                           ![i].cur = [dir |-> Head(procs[i].dirs),
                                       name |-> NoPath.name],
                           ![i].dirs = Tail(@)]
            /\ UNCHANGED journal
    /\ UNCHANGED <<runVars, xtVars, outputThere>>

\* archiver.py:136-138: the next listed path; what is not a regular file now
\* is passed over
CleanupIsFile(i) ==
    /\ procs[i].task = "cleanup"
    /\ procs[i].pc = "next_file"
    /\ IF procs[i].listing = <<>>
       THEN procs' = Goto(i, "next_dir")
       ELSE LET name == Head(procs[i].listing)
                there == At(procs[i].cur.dir, name)
            IN  procs' = [procs EXCEPT
                    ![i].listing = Tail(@),
                    ![i].cur = [dir |-> procs[i].cur.dir, name |-> name],
                    ![i].pc = IF \E e \in there : e.kind = "file"
                              THEN "stat_mtime" ELSE "next_file"]
    /\ UNCHANGED <<runVars, xtVars, outputThere, journal>>

\* archiver.py:141-143: stat() of the path, outside any try; the
\* modification time is compared with the cutoff
CleanupStatMtime(i) ==
    /\ procs[i].task = "cleanup"
    /\ procs[i].pc = "stat_mtime"
    /\ LET there == At(procs[i].cur.dir, procs[i].cur.name)
       IN  IF there = {}
           THEN /\ procs' = Goto(i, "raised")
                /\ Log([ev |-> "raise", proc |-> i, task |-> "cleanup"])
           ELSE /\ procs' = Goto(i, IF \E e \in there : e.mtime < procs[i].cutoff
                                    THEN "stat_size" ELSE "next_file")
                /\ UNCHANGED journal
    /\ UNCHANGED <<runVars, xtVars, outputThere>>

\* CleanupStatSize gone wrong: a dry run goes on to delete
CleanupStatSize_DryDeletes(i) ==
    /\ procs[i].task = "cleanup"
    /\ procs[i].pc = "stat_size"
    /\ LET there == At(procs[i].cur.dir, procs[i].cur.name)
       IN  IF there = {}
           THEN /\ procs' = Goto(i, "raised")
                /\ Log([ev |-> "raise", proc |-> i, task |-> "cleanup"])
           ELSE /\ procs' = [procs EXCEPT
                       ![i].file_size = (CHOOSE e \in there : TRUE).size,
                       ![i].pc = "unlink"]
                /\ UNCHANGED journal
    /\ UNCHANGED <<runVars, xtVars, outputThere>>

\* archiver.py:144-150: a second stat() of the path for its size; a dry run
\* only reports the file
CleanupStatSize(i) ==
    /\ procs[i].task = "cleanup"
    /\ procs[i].pc = "stat_size"
    /\ LET there == At(procs[i].cur.dir, procs[i].cur.name)
       IN  IF there = {}
           THEN /\ procs' = Goto(i, "raised")
                /\ Log([ev |-> "raise", proc |-> i, task |-> "cleanup"])
           ELSE /\ procs' = [procs EXCEPT
                       ![i].file_size = (CHOOSE e \in there : TRUE).size,
                       ![i].pc = IF procs[i].dry_run THEN "next_file"
                                 ELSE "unlink"]
                /\ UNCHANGED journal
    /\ UNCHANGED <<runVars, xtVars, outputThere>>

\* CleanupUnlink gone wrong: a file is counted although its deletion failed
CleanupUnlink_CountsFailures(i) ==
    /\ procs[i].task = "cleanup"
    /\ procs[i].pc = "unlink"
    /\ LET d == procs[i].cur.dir
           there == At(d, procs[i].cur.name)
       IN  \E deleted \in BOOLEAN :
             /\ deleted => there # {}
             /\ procs' = [procs EXCEPT
                        ![i].pc = "next_file",
                        ![i].files_deleted = @ + 1,
                        ![i].size_freed = @ + procs[i].file_size]
             /\ IF deleted
                THEN /\ successArchive' = IF d = "success"
                                          THEN successArchive \ there
                                          ELSE successArchive
                     /\ errorArchive' = IF d = "error"
                                        THEN errorArchive \ there
                                        ELSE errorArchive
                     /\ Log([ev |-> "delete", proc |-> i, run |-> procs[i].run,
                             dir |-> d, entry |-> CHOOSE e \in there : TRUE])
                ELSE /\ UNCHANGED <<successArchive, errorArchive>>
                     /\ Log([ev |-> "unlink_failed", proc |-> i,
                             run |-> procs[i].run, dir |-> d,
                             name |-> procs[i].cur.name])
    /\ UNCHANGED <<cfgVars, now, inputDir, sidecars, outputDir,
                   processed_files, pc, localVars, postVars, obsVars, xtVars,
                   outputThere>>

\* CleanupUnlink gone wrong: the file is counted as deleted and stays
CleanupUnlink_KeepsFile(i) ==
    /\ procs[i].task = "cleanup"
    /\ procs[i].pc = "unlink"
    /\ LET d == procs[i].cur.dir
           there == At(d, procs[i].cur.name)
       IN  /\ there # {}
           /\ procs' = [procs EXCEPT
                        ![i].pc = "next_file",
                        ![i].files_deleted = @ + 1,
                        ![i].size_freed = @ + procs[i].file_size]
           /\ UNCHANGED <<successArchive, errorArchive>>
           /\ Log([ev |-> "delete", proc |-> i, run |-> procs[i].run,
                   dir |-> d, entry |-> CHOOSE e \in there : TRUE])
    /\ UNCHANGED <<cfgVars, now, inputDir, sidecars, outputDir,
                   processed_files, pc, localVars, postVars, obsVars, xtVars,
                   outputThere>>

\* archiver.py:152-158: unlink() inside a try; a deleted file is counted, a
\* failure is logged
CleanupUnlink(i) ==
    /\ procs[i].task = "cleanup"
    /\ procs[i].pc = "unlink"
    /\ LET d == procs[i].cur.dir
           there == At(d, procs[i].cur.name)
       IN  \E deleted \in BOOLEAN :
             /\ deleted => there # {}
             /\ IF deleted
                THEN /\ procs' = [procs EXCEPT
                            ![i].pc = "next_file",
                            ![i].files_deleted = @ + 1,
                            ![i].size_freed = @ + procs[i].file_size]
                     /\ successArchive' = IF d = "success"
                                          THEN successArchive \ there
                                          ELSE successArchive
                     /\ errorArchive' = IF d = "error"
                                        THEN errorArchive \ there
                                        ELSE errorArchive
                     /\ Log([ev |-> "delete", proc |-> i, run |-> procs[i].run,
                             dir |-> d, entry |-> CHOOSE e \in there : TRUE])
                ELSE /\ procs' = Goto(i, "next_file")
                     /\ UNCHANGED <<successArchive, errorArchive>>
                     /\ Log([ev |-> "unlink_failed", proc |-> i,
                             run |-> procs[i].run, dir |-> d,
                             name |-> procs[i].cur.name])
    /\ UNCHANGED <<cfgVars, now, inputDir, sidecars, outputDir,
                   processed_files, pc, localVars, postVars, obsVars, xtVars,
                   outputThere>>

\* no command is running on the archive directories
BetweenCommands == \A i \in DOMAIN procs : procs[i].pc \in {"ready", "raised", "left"}

\* time passes between two commands
Tick ==
    /\ BetweenCommands
    /\ now < StartTime + MaxTicks
    /\ now' = now + 1
    /\ UNCHANGED <<cfgVars, fsVars, processed_files, pc, localVars, postVars,
                   obsVars, xtVars, arVars>>

CleanupStep(i) ==
    \/ CleanupNextDir(i)
    \/ CleanupIsFile(i)
    \/ CleanupStatMtime(i)
    \/ CleanupStatSize(i)
    \/ CleanupUnlink(i)

\* cli.py:251-271: the cleanup command, run MaxCleanups times one after the
\* other on archives that hold any of the candidate entries
InitCleanup ==
    /\ max_retries = DefaultMaxRetries
    /\ retry_delay = DefaultRetryDelay
    /\ timeout = DefaultTimeout
    /\ expiry_minutes = DefaultExpiryMinutes
    /\ now = StartTime
    /\ inputDir = {}
    /\ successArchive \in {S \in SUBSET SuccessCandidates : Consistent(S)}
    /\ errorArchive \in SUBSET ErrorCandidates
    /\ sidecars = {}
    /\ outputDir = {}
    /\ InitIdle
    /\ NoCalls
    /\ outputThere = TRUE
    /\ procs = <<NewProc("cleanup", "ghost.xml", NoText, None)>>
    /\ journal = <<>>

NextCleanup ==
    \/ \E dry \in BOOLEAN : CleanupStart(1, RetentionDays, dry)
    \/ CleanupStep(1)
    \/ Tick

SpecCleanup == InitCleanup /\ [][NextCleanup]_vars

----
\* Commands that work on the same directories side by side: cleanups,
\* archive_error calls, and the end of process_file after the order was
\* accepted (save_response, then archive_success).

\* the input files of these commands; two of them have the same name in
\* different directories
SharedInput == {"order.xml", "other/order.xml", "reorder.xml"}

\* the response the endpoint gave for input file p
ResponseTo(p) == [request |-> p]

\* _archive_file gone wrong: the file is copied, the original stays
_archive_file_Copies(i, d, next) ==
    LET dest == ArchivedName(procs[i].src, now)
        old == At(d, dest)
    IN  \E moved \in BOOLEAN :
          /\ moved => procs[i].src \in inputDir
          /\ UNCHANGED inputDir
          /\ IF moved
             THEN /\ successArchive' =
                        IF d = "success"
                        THEN (successArchive \ old) \cup
                             {Entry(dest, "file", "", StartTime, 1)}
                        ELSE successArchive
                  /\ errorArchive' =
                        IF d = "error"
                        THEN (errorArchive \ old) \cup
                             {Entry(dest, "file", "", StartTime, 1)}
                        ELSE errorArchive
                  /\ procs' = [procs EXCEPT
                                  ![i].pc = next,
                                  ![i].moved = "ok",
                                  ![i].archived = [dir |-> d, name |-> dest]]
                  /\ Log([ev |-> "move", proc |-> i, src |-> procs[i].src,
                          dir |-> d, name |-> dest, replaced |-> old # {}])
             ELSE /\ UNCHANGED <<successArchive, errorArchive>>
                  /\ procs' = [procs EXCEPT ![i].pc = "raised",
                                            ![i].moved = "failed"]
                  /\ Log([ev |-> "raise", proc |-> i, task |-> procs[i].task])

\* archiver.py:80-110: the destination name is built from the clock, in
\* seconds; shutil.move renames the file, which replaces a file already at the
\* destination and keeps the modification time (the input files were written
\* at StartTime); a failure is logged and raised again
_archive_file(i, d, next) ==
    LET dest == ArchivedName(procs[i].src, now)
        old == At(d, dest)
    IN  \E moved \in BOOLEAN :
          /\ moved => procs[i].src \in inputDir
          /\ IF moved
             THEN /\ inputDir' = inputDir \ {procs[i].src}
                  /\ successArchive' =
                        IF d = "success"
                        THEN (successArchive \ old) \cup
                             {Entry(dest, "file", "", StartTime, 1)}
                        ELSE successArchive
                  /\ errorArchive' =
                        IF d = "error"
                        THEN (errorArchive \ old) \cup
                             {Entry(dest, "file", "", StartTime, 1)}
                        ELSE errorArchive
                  /\ procs' = [procs EXCEPT
                                  ![i].pc = next,
                                  ![i].moved = "ok",
                                  ![i].archived = [dir |-> d, name |-> dest]]
                  /\ Log([ev |-> "move", proc |-> i, src |-> procs[i].src,
                          dir |-> d, name |-> dest, replaced |-> old # {}])
             ELSE /\ UNCHANGED <<inputDir, successArchive, errorArchive>>
                  /\ procs' = [procs EXCEPT ![i].pc = "raised",
                                            ![i].moved = "failed"]
                  /\ Log([ev |-> "raise", proc |-> i, task |-> procs[i].task])

\* archiver.py:53-64: archive_error(file_path, error_message) moves the file
\* to the failure archive
FailMove(i) ==
    /\ procs[i].task = "fail"
    /\ procs[i].pc = "ready"
    /\ _archive_file(i, "error", "sidecar")
    /\ UNCHANGED <<cfgVars, now, sidecars, outputDir, processed_files, pc,
                   localVars, postVars, obsVars, xtVars, outputThere>>

\* FailSidecar gone wrong: a sidecar that cannot be written ends the call
\* with an exception
FailSidecar_Raises(i) ==
    /\ procs[i].task = "fail"
    /\ procs[i].pc = "sidecar"
    /\ LET name == SidecarName(procs[i].archived.name)
       IN  \E written \in BOOLEAN :
             /\ written => procs[i].msg # NoText
             /\ errorArchive' =
                   IF written
                   THEN (errorArchive \ At("error", name)) \cup
                        {Entry(name, "file", "", now, 1)}
                   ELSE errorArchive
             /\ procs' = Goto(i, IF written \/ procs[i].msg = NoText
                                 THEN "left" ELSE "raised")
             /\ Log([ev |-> "archive_error", proc |-> i, src |-> procs[i].src,
                     msg |-> procs[i].msg, t |-> now,
                     returned |-> procs[i].archived,
                     written |-> written,
                     sidecar |-> IF written THEN name ELSE NoPath.name,
                     text |-> IF written THEN procs[i].msg ELSE NoText,
                     source_there |-> procs[i].src \in inputDir,
                     archived_there |->
                         At("error", procs[i].archived.name) # {}])
    /\ UNCHANGED <<cfgVars, now, inputDir, successArchive, sidecars,
                   outputDir, processed_files, pc, localVars, postVars,
                   obsVars, xtVars, outputThere>>

\* archiver.py:66-78: with a message, the sidecar <archived name>.error.txt
\* is written; a failure of the write is logged and the archived path is
\* returned all the same
FailSidecar(i) ==
    /\ procs[i].task = "fail"
    /\ procs[i].pc = "sidecar"
    /\ LET name == SidecarName(procs[i].archived.name)
       IN  \E written \in BOOLEAN :
             /\ written => procs[i].msg # NoText
             /\ errorArchive' =
                   IF written
                   THEN (errorArchive \ At("error", name)) \cup
                        {Entry(name, "file", "", now, 1)}
                   ELSE errorArchive
             /\ procs' = Goto(i, "left")
             /\ Log([ev |-> "archive_error", proc |-> i, src |-> procs[i].src,
                     msg |-> procs[i].msg, t |-> now,
                     returned |-> procs[i].archived,
                     written |-> written,
                     sidecar |-> IF written THEN name ELSE NoPath.name,
                     text |-> IF written THEN procs[i].msg ELSE NoText,
                     source_there |-> procs[i].src \in inputDir,
                     archived_there |->
                         At("error", procs[i].archived.name) # {}])
    /\ UNCHANGED <<cfgVars, now, inputDir, successArchive, sidecars,
                   outputDir, processed_files, pc, localVars, postVars,
                   obsVars, xtVars, outputThere>>

\* api_client.py:254-291 called at cli.py:164-170: the directory is made when
\* it is absent, the file is opened for writing and written; whatever fails
\* is raised as an APIError
FinishSave(i) ==
    /\ procs[i].task = "finish"
    /\ procs[i].pc = "ready"
    /\ LET name == ResponseName(procs[i].po, now)
       IN  \E outcome \in {"saved", "mkdir failed", "write failed"} :
             /\ outcome = "mkdir failed" => ~outputThere
             /\ outputThere' = (outputThere \/ outcome # "mkdir failed")
             /\ outputDir' =
                   IF outcome = "saved"
                   THEN {f \in outputDir : f.name # name}
                        \cup {[name |-> name,
                               content |-> ResponseTo(procs[i].src)]}
                   ELSE outputDir
             /\ procs' = Goto(i, IF outcome = "saved" THEN "archive"
                                 ELSE "raised")
             /\ Log([ev |-> "save_response", proc |-> i, po |-> procs[i].po,
                     t |-> now, outcome |-> outcome,
                     there_before |-> outputThere,
                     file |-> IF outcome = "saved" THEN name
                              ELSE ResponseName(None, 0),
                     replaced |-> outcome = "saved" /\
                                  \E f \in outputDir : f.name = name,
                     raised |-> IF outcome = "saved" THEN NoText
                                ELSE MsgSave])
    /\ UNCHANGED <<cfgVars, now, inputDir, successArchive, errorArchive,
                   sidecars, processed_files, pc, localVars, postVars,
                   obsVars, xtVars>>

\* cli.py:174-175 with archiver.py:41-51: the input file is moved to the
\* success archive
FinishMove(i) ==
    /\ procs[i].task = "finish"
    /\ procs[i].pc = "archive"
    /\ _archive_file(i, "success", "left")
    /\ UNCHANGED <<cfgVars, now, sidecars, outputDir, processed_files, pc,
                   localVars, postVars, obsVars, xtVars, outputThere>>

\* what the first and the second process can be given to do
FirstTasks ==
    { NewProc("cleanup", "ghost.xml", NoText, None),
      NewProc("fail", "order.xml", MsgValidation, None),
      NewProc("fail", "order.xml", NoText, None),
      NewProc("finish", "order.xml", NoText, "PO123"),
      NewProc("finish", "order.xml", NoText, None) }

SecondTasks ==
    { NewProc("cleanup", "ghost.xml", NoText, None),
      NewProc("fail", "other/order.xml", MsgSave, None),
      NewProc("finish", "reorder.xml", NoText, "PO123"),
      NewProc("finish", "reorder.xml", NoText, None),
      NewProc("finish", "reorder.xml", NoText, "") }

InitShared ==
    /\ max_retries = DefaultMaxRetries
    /\ retry_delay = DefaultRetryDelay
    /\ timeout = DefaultTimeout
    /\ expiry_minutes = DefaultExpiryMinutes
    /\ now = StartTime
    /\ inputDir = SharedInput
    /\ successArchive = {e \in SuccessCandidates : e.mtime < StartCutoff}
    /\ errorArchive \in {{}, {e \in ErrorCandidates : e.name.suffix = ".xml"}}
    /\ sidecars = {}
    /\ outputDir = {}
    /\ InitIdle
    /\ NoCalls
    /\ outputThere \in BOOLEAN
    /\ procs \in {<<a, b>> : a \in FirstTasks, b \in SecondTasks}
    /\ journal = <<>>

NextShared ==
    \/ \E i \in {1, 2}, dry \in BOOLEAN :
          procs[i].run = 0 /\ CleanupStart(i, RetentionDays, dry)
    \/ \E i \in {1, 2} : CleanupStep(i)
    \/ \E i \in {1, 2} : FailMove(i)
    \/ \E i \in {1, 2} : FailSidecar(i)
    \/ \E i \in {1, 2} : FinishSave(i)
    \/ \E i \in {1, 2} : FinishMove(i)
    \/ Tick

SpecShared == InitShared /\ [][NextShared]_vars

----
\* Properties of the pipeline.

InSuccessArchive(p) ==
    \E f \in successArchive : f.stem = Stem(p) /\ f.suffix = Suffix(p)

InErrorArchive(p) ==
    \E f \in errorArchive : f.stem = Stem(p) /\ f.suffix = Suffix(p)

\* post_purchase_order is being executed
InPost == pc \in {"post_loop", "post_send", "post_sleep"}

\* post_purchase_order was left by an APIError
PostFailed ==
    /\ pc \in {"h_api", "h_outer", "done"}
    /\ failedStage = "post"

\* the statuses that are neither 200 nor 5xx, as the observation records them
TerminalStatuses == {"401", "403", "400", "404", "204"}

\* the spellings of the status "rejected" the responses of the model use
RejectedSpellings == {"Rejected", " REJECTED ", "rejected"}

AllServerErrors ==
    /\ outcomes # <<>>
    /\ \A i \in DOMAIN outcomes : outcomes[i] = "5xx"

\* C1: when a run has returned and no move of the run failed, the input file
\* is in exactly one of the success archive and the failure archive, and no
\* longer in the input directory.
C1_ExactlyOneArchive ==
    (pc = "done" /\ ~moveFailed) =>
        /\ InSuccessArchive(input_file) # InErrorArchive(input_file)
        /\ input_file \notin inputDir

\* a run whose submission failed returned with the file in the failure archive
C1_Witness ==
    /\ pc = "done"
    /\ ~moveFailed
    /\ failedStage = "post"
    /\ InErrorArchive(input_file)
    /\ ~InSuccessArchive(input_file)

\* C2: a failed stage short-circuits the later ones.  No request is sent in a
\* run whose token generation or transform failed; no response is saved and
\* archive_success is not called in a run whose submission failed; and the
\* run's first archive_error call carries the text of that failure.
C2_ShortCircuit ==
    /\ failedStage \in {"token", "transform"} => sent = <<>>
    /\ failedStage = "token" => transformed_xml = NoPayload
    /\ failedStage = "post" => saveCalls = 0 /\ archiveSuccessCalls = 0
    /\ failedStage \in {"token", "transform", "post"} =>
            /\ saveCalls = 0 /\ archiveSuccessCalls = 0
            /\ archiveErrorCalls # <<>> => archiveErrorCalls[1] = stageErr
            /\ pc = "done" => archiveErrorCalls # <<>>

\* a run whose submission failed after a request has returned
C2_Witness ==
    /\ pc = "done"
    /\ failedStage = "post"
    /\ Len(sent) > 0
    /\ archiveErrorCalls = <<stageErr>>

\* C3: when every attempt so far received a 5xx response, the call has not
\* returned a body and has sent at most max_retries requests; once it has
\* ended it has sent exactly max_retries requests and failed with the
\* server-error APIError.
C3_RetryOn5xx ==
    AllServerErrors =>
        /\ Len(sent) <= max_retries
        /\ InPost \/ PostFailed
        /\ PostFailed =>
                /\ Len(sent) = max_retries
                /\ Contains(stageErr, "Server")

\* three 503/500 responses under max_retries = 3, then the failure
C3_Witness ==
    /\ AllServerErrors
    /\ pc = "h_api"
    /\ max_retries = 3
    /\ Len(sent) = 3

\* C4: a response with status 401, 403, 400 or any other status that is
\* neither 200 nor 5xx ends the call with an APIError at once: it is the last
\* outcome of the call, no request and no sleep follows it.
C4_TerminalStatus ==
    \A i \in DOMAIN outcomes :
        outcomes[i] \in TerminalStatuses =>
            /\ i = Len(outcomes)
            /\ PostFailed
            /\ Len(sent) = i
            /\ sleeps = i - 1
            /\ attempt = i

\* a 403 on the second of three attempts has ended the run
C4_Witness ==
    /\ outcomes = <<"5xx", "403">>
    /\ max_retries = 3
    /\ pc = "done"

\* C5: a timeout or a connection failure is transient: while attempts remain
\* the call goes on (sleeps, then re-attempts), and it fails only when
\* max_retries attempts are used; any other transport exception ends the call
\* with an APIError at once.
C5_TransportErrors ==
    /\ \A i \in DOMAIN outcomes :
            outcomes[i] = "RequestException" =>
                /\ i = Len(outcomes)
                /\ PostFailed
                /\ Len(sent) = i
                /\ sleeps = i - 1
    /\ (outcomes # <<>>
        /\ outcomes[Len(outcomes)] \in {"Timeout", "ConnectionError"}) =>
            IF Len(outcomes) < max_retries
            THEN /\ InPost
                 /\ sleeps \in {Len(outcomes) - 1, Len(outcomes)}
                 /\ pc # "post_sleep" => sleeps = Len(outcomes)
            ELSE /\ PostFailed
                 /\ Len(sent) = max_retries
                 /\ sleeps = max_retries - 1

\* timeouts and connection failures used up three attempts
C5_Witness ==
    /\ outcomes = <<"Timeout", "ConnectionError", "Timeout">>
    /\ pc = "h_api"
    /\ sleeps = 2

\* the latest attempt received HTTP 200 with a body that parses
Got200 ==
    /\ lastOutcome.kind = "http"
    /\ lastOutcome.status = 200
    /\ lastOutcome.body.parses

\* an element was found and its text is not blank
Supplied(e) == e \notin {NoElem, "", "  "}

\* C6: an HTTP 200 response whose transaction status is a spelling of
\* "rejected" ends the call with an APIError at once, whatever attempts
\* remain: no request and no sleep follows, nothing is saved; and the message
\* holds the Errorcode and the Errordetail the response supplies.
C6_Rejected ==
    (Got200 /\ lastOutcome.body.tx \in RejectedSpellings) =>
        /\ PostFailed
        /\ Len(sent) = Len(outcomes)
        /\ sleeps = Len(outcomes) - 1
        /\ saveCalls = 0
        /\ Supplied(lastOutcome.body.code) =>
                Contains(stageErr, lastOutcome.body.code)
        /\ Supplied(lastOutcome.body.detail) =>
                Contains(stageErr, lastOutcome.body.detail)

\* a rejection with code and detail on the first of several attempts
C6_Witness ==
    /\ Got200
    /\ lastOutcome.body.tx = "Rejected"
    /\ lastOutcome.body.code = "E42"
    /\ lastOutcome.body.detail = "Invalid SKU"
    /\ attempt = 1
    /\ max_retries > 1
    /\ pc = "h_api"

C8_OneCredentialPerRun ==
    /\ tokenCalls <= 1
    /\ sent # <<>> => tokenCalls = 1
    /\ \A i \in DOMAIN sent :
            /\ sent[i].token = sent[1].token
            /\ sent[i].payload = sent[1].payload
            /\ sent[i].token = jwt_token
            /\ sent[i].token # NoToken
            /\ sent[i].payload = transformed_xml
    /\ \A u, v \in credentialUse : u.token = v.token => u.run = v.run

\* the second run of a session retries, after a first run that sent requests
C8_Witness ==
    /\ runs = 2
    /\ Len(sent) >= 2
    /\ \E u \in credentialUse : u.run = 1

\* C9: the credential of every request is unexpired when the request is
\* sent: its expiry is later than the time of sending.
C9_UnexpiredAtUse ==
    \A i \in DOMAIN sent : sent[i].token.exp > sent[i].at

\* C10: a signing failure is not retried: the run has called generate_token
\* once and sends no request; its first archive_error call carries the
\* JWTError text; and when the failure move succeeds the run returns the
\* authentication exit code with the input in the failure archive.
C10_SigningNotRetried ==
    failedStage = "token" =>
        /\ tokenCalls = 1
        /\ tokenGen = 0
        /\ jwt_token = NoToken
        /\ stageErr = MsgSigning
        /\ sent = <<>>
        /\ pc \in {"h_jwt", "h_outer", "done"}
        /\ archiveErrorCalls # <<>> => archiveErrorCalls[1] = MsgSigning
        /\ (pc = "done" /\ ~moveFailed) =>
                /\ exitCode = EXIT_AUTH_ERROR
                /\ InErrorArchive(input_file)
                /\ Len(archiveErrorCalls) = 1

\* a run whose signing failed has returned the authentication exit code
C10_Witness ==
    /\ failedStage = "token"
    /\ pc = "done"
    /\ ~moveFailed
    /\ exitCode = EXIT_AUTH_ERROR
    /\ InErrorArchive(input_file)

----
\* Exit codes of failed runs.

\* the run has returned after its submission failed on outcome kind k, and
\* its failure move succeeded
PostFailedOn(kinds) ==
    /\ pc = "done"
    /\ failedStage = "post"
    /\ ~moveFailed
    /\ lastOutcome.kind \in kinds

\* C11: a run whose submission failed on HTTP 401 or HTTP 403 returns
\* EXIT_AUTH_ERROR (2).
C11_AuthExitCode ==
    (PostFailedOn({"http"}) /\ lastOutcome.status \in {401, 403}) =>
        exitCode = EXIT_AUTH_ERROR

\* C12: a run whose submission failed because the attempts were used up on
\* timeouts or connection failures returns EXIT_NETWORK_ERROR (4).
C12_NetworkExitCode ==
    PostFailedOn({"Timeout", "ConnectionError"}) =>
        exitCode = EXIT_NETWORK_ERROR

\* the response of the run is in the output directory under the name
\* save_response gives it
ResponseSaved ==
    \E f \in outputDir :
        /\ f.name = ResponseName(po_number, now)
        /\ f.content = response_xml

\* a run that returns 0 has saved the response and moved the input to the
\* success archive
ZeroOnlyOnSuccess ==
    (pc = "done" /\ exitCode = EXIT_SUCCESS) =>
        /\ failedStage = "none"
        /\ saveCalls = 1
        /\ ResponseSaved
        /\ InSuccessArchive(input_file)
        /\ input_file \notin inputDir

\* C13 as stated: every run in which a stage failed returns a non-zero exit
\* code with the input file in the failure archive, and a run returns 0 only
\* when the response was saved and the input is in the success archive.
C13_FailureArchived ==
    /\ (pc = "done" /\ failedStage # "none") =>
            /\ exitCode # EXIT_SUCCESS
            /\ InErrorArchive(input_file)
    /\ ZeroOnlyOnSuccess

\* C13, amended: every run in which a stage failed returns a non-zero exit
\* code and never leaves the input in the success archive; the input is in
\* the failure archive unless a move of the run failed, and when it is not
\* there it is still where it was before the run.  A run returns 0 only when
\* the response was saved and the input is in the success archive.
C13_FailureArchivedIfMoved ==
    /\ (pc = "done" /\ failedStage # "none") =>
            /\ exitCode # EXIT_SUCCESS
            /\ ~InSuccessArchive(input_file)
            /\ ~moveFailed => InErrorArchive(input_file)
            /\ ~InErrorArchive(input_file) =>
                    /\ moveFailed
                    /\ input_file \in inputDir <=> input_file \in InitialInput
    /\ ZeroOnlyOnSuccess

\* a run whose response could not be saved returned with the input in the
\* failure archive
C13_Witness ==
    /\ pc = "done"
    /\ failedStage = "save"
    /\ exitCode = EXIT_CONFIG_ERROR
    /\ InErrorArchive(input_file)
    /\ ~moveFailed

\* the positions of process_file; there is none for an exception that left it
PcValues ==
    {"idle", "validate", "gen_token", "h_jwt", "transform", "h_xml",
     "post_loop", "post_send", "post_sleep", "h_api", "save", "archive",
     "h_outer", "done"}

\* the stages whose exceptions no stage handler catches
UnexpectedStages == {"validate", "save", "archive_success"}

\* C14: no exception leaves process_file.  Every raised exception is in a
\* handler or the run has returned; an exception of input validation,
\* response saving or success archiving reaches the outer handler, which
\* calls archive_error with its text and returns EXIT_CONFIG_ERROR whether or
\* not that archive_error call raises.
C14_NothingPropagates ==
    /\ pc \in PcValues
    /\ failedStage # "none" => pc \in {"h_jwt", "h_xml", "h_api", "h_outer", "done"}
    /\ pc = "h_outer" => ENABLED HandleUnexpected
    /\ (pc = "done" /\ failedStage \in UnexpectedStages) =>
            /\ exitCode = EXIT_CONFIG_ERROR
            /\ archiveErrorCalls = <<stageErr>>
    /\ (pc = "done" /\ exc = MsgMove) => exitCode = EXIT_CONFIG_ERROR

\* the success move failed, then the failure move failed as well, and the
\* run returned the generic exit code
C14_Witness ==
    /\ pc = "done"
    /\ failedStage = "archive_success"
    /\ archiveErrorCalls = <<MsgMove>>
    /\ ~InErrorArchive(input_file)
    /\ input_file \in inputDir
    /\ exitCode = EXIT_CONFIG_ERROR

----
\* The pipeline end to end.

\* the run is on order.xml, a well-formed order without an envelope whose
\* order number is PO123, and the endpoint has answered HTTP 200 with the
\* status Accepted
AcceptedOrderRun ==
    /\ input_file = "order.xml"
    /\ pc \in {"save", "archive", "h_outer", "done"}
    /\ lastOutcome.kind = "http"
    /\ lastOutcome.status = 200
    /\ lastOutcome.body.parses
    /\ lastOutcome.body.tx = "Accepted"

\* response_PO123.xml is in the output directory and holds the response
ResponsePO123Saved ==
    \E f \in outputDir :
        /\ f.name = [id |-> "PO123", ts |-> 0]
        /\ f.content = lastOutcome.body

\* C15: for the un-enveloped order PO123, a signed token and an HTTP 200
\* Accepted answer, the run saves the response as response_PO123.xml while
\* the input is still in the input directory, then moves the input to the
\* success archive and returns 0; it ends otherwise only when the save or
\* the move itself fails.
C15_EndToEnd ==
    AcceptedOrderRun =>
        /\ tokenGen = 1
        /\ sent[Len(sent)].payload =
              SOAP_TEMPLATE(RootElement(DocOf("order.xml")))
        /\ pc = "save" => outputDir = {} /\ input_file \in inputDir
        /\ pc = "archive" =>
              /\ ResponsePO123Saved
              /\ input_file \in inputDir
              /\ ~InSuccessArchive(input_file)
        /\ pc = "done" =>
              \/ /\ failedStage = "none"
                 /\ exitCode = EXIT_SUCCESS
                 /\ ResponsePO123Saved
                 /\ InSuccessArchive(input_file)
                 /\ ~InErrorArchive(input_file)
                 /\ input_file \notin inputDir
              \/ failedStage \in {"save", "archive_success"}

\* the accepted order has been saved and archived, and the run returned 0
C15_Witness ==
    /\ AcceptedOrderRun
    /\ pc = "done"
    /\ exitCode = EXIT_SUCCESS
    /\ ResponsePO123Saved
    /\ InSuccessArchive(input_file)

----
\* Properties of transform_string and extract_po_number.

TransformCalls == {i \in DOMAIN calls : calls[i].fn = "transform_string"}
ExtractCalls == {i \in DOMAIN calls : calls[i].fn = "extract_po_number"}

\* the number of operation wrapper elements (tns:GetPurchaseOrder) in x
Wrappers(x) ==
    Cardinality({i \in DOMAIN x :
                    /\ x[i].k \in {"open", "empty"}
                    /\ x[i].p = "tns"
                    /\ x[i].n = "GetPurchaseOrder"})

\* C16: transform_string returns a well-formed text that holds one of the
\* three envelope markers unchanged.
C16_EnvelopeIdentity ==
    \A i \in TransformCalls :
        (/\ _is_valid_xml(calls[i].arg)
         /\ \E k \in DOMAIN calls[i].arg : HoldsMarker(calls[i].arg[k])) =>
            /\ calls[i].ok
            /\ calls[i].value = calls[i].arg

\* a well-formed order whose only marker is inside a comment came back as
\* it was given
C16_Witness ==
    \E i \in TransformCalls :
        /\ calls[i].arg =
              MakeDoc(<<"", "DistiPODataRq">>, "plain", "bare",
                      <<Comment("see soap:Envelope")>>)
        /\ calls[i].ok
        /\ calls[i].value = calls[i].arg

\* call j is transform_string applied to what call i returned
Reapplied(i, j) ==
    /\ i \in TransformCalls /\ j \in TransformCalls
    /\ calls[i].ok
    /\ calls[j].arg = calls[i].value

\* C17 as stated: transform_string applied to its own result returns that
\* result, and when the first application added the envelope the result
\* holds exactly one operation wrapper element.
C17_IdempotentOneWrapper ==
    \A i, j \in DOMAIN calls :
        Reapplied(i, j) =>
            /\ calls[j].ok
            /\ calls[j].value = calls[i].value
            /\ calls[i].value # calls[i].arg => Wrappers(calls[j].value) = 1

\* C17, amended: transform_string applied to its own result returns that
\* result, and when the first application added the envelope the result
\* holds exactly one operation wrapper element more than the input did: one
\* when the input had none.
C17_IdempotentWrappedOnce ==
    \A i, j \in DOMAIN calls :
        Reapplied(i, j) =>
            /\ calls[j].ok
            /\ calls[j].value = calls[i].value
            /\ calls[i].value # calls[i].arg =>
                  Wrappers(calls[j].value) = Wrappers(calls[i].arg) + 1

\* an order without an envelope was wrapped, and transforming the result
\* again returned it with its one wrapper
C17_Witness ==
    \E i, j \in DOMAIN calls :
        /\ Reapplied(i, j)
        /\ i < j
        /\ Wrappers(calls[i].arg) = 0
        /\ calls[i].value # calls[i].arg
        /\ calls[j].value = calls[i].value
        /\ Wrappers(calls[j].value) = 1

MalformedInput ==
    /\ pc # "idle"
    /\ input_file \in InitialInput
    /\ ~_is_valid_xml(DocOf(input_file))

\* C19: in a run on a malformed input the transform, when it is reached,
\* raises XMLTransformError and returns nothing: no payload exists, no
\* request is sent, no response is saved, and the run ends with a non-zero
\* exit code and, when the failure move succeeds, with the input in the
\* failure archive.
C19_MalformedFails ==
    MalformedInput =>
        /\ transformed_xml = NoPayload
        /\ sent = <<>>
        /\ saveCalls = 0 /\ outputDir = {}
        /\ successArchive = {}
        /\ \/ pc \in {"validate", "gen_token", "transform"}
           \/ failedStage \in {"validate", "token", "transform"}
        /\ failedStage = "transform" =>
              /\ stageErr = <<"Error", "reading", "XML", "file:",
                              "Invalid", "XML", "syntax">>
              /\ pc \in {"h_xml", "h_outer", "done"}
        /\ pc = "done" =>
              /\ exitCode # EXIT_SUCCESS
              /\ ~moveFailed => InErrorArchive(input_file)

\* an envelope that is not closed failed the transform and is in the
\* failure archive
C19_Witness ==
    /\ MalformedInput
    /\ input_file = "torn.xml"
    /\ failedStage = "transform"
    /\ pc = "done"
    /\ exitCode = EXIT_CONFIG_ERROR
    /\ InErrorArchive(input_file)
    /\ sent = <<>>

\* C20: extract_po_number returns without raising; it returns the text of
\* the order-number element, found whatever the case of its name and
\* whatever its prefix, and None when there is no such element.
C20_PoNumberAnyCase ==
    \A c \in ExtractCalls :
        LET x == calls[c].arg
            found == {i \in DOMAIN x :
                        /\ i + 2 <= Len(x)
                        /\ x[i].k = "open"
                        /\ Lower(x[i].n) = "distiponumber"
                        /\ x[i + 1].k = "text"
                        /\ x[i + 2].k = "close"}
        IN  /\ calls[c].ok
            /\ found = {} => calls[c].value = None
            /\ found # {} =>
                  calls[c].value =
                      x[(CHOOSE i \in found : \A j \in found : i <= j) + 1].n

----
\* Properties of the commands on the output and archive directories.

\* the events of one kind recorded so far
Events(kind) ==
    {journal[k] : k \in {j \in DOMAIN journal : journal[j].ev = kind}}

\* C21: save_response writes the response to response_<id>.xml when an order
\* number is known and to response_<timestamp>.xml otherwise, creates the
\* output directory when it is absent, and whatever fails in it is raised as
\* an APIError ("Failed to save response: ...").
C21_SaveResponse ==
    \A e \in Events("save_response") :
        IF e.outcome = "saved"
        THEN /\ e.raised = NoText
             /\ e.file = IF e.po \in {None, ""}
                         THEN [id |-> None, ts |-> e.t]
                         ELSE [id |-> e.po, ts |-> 0]
             /\ \E f \in outputDir : f.name = e.file
             /\ outputThere
        ELSE /\ e.raised = MsgSave
             /\ procs[e.proc].pc = "raised"
             /\ procs[e.proc].moved = "no"

\* a response was saved into a directory that had to be made, under the
\* order number, and another call failed
C21_Witness ==
    \E e1, e2 \in Events("save_response") :
        /\ e1.outcome = "saved" /\ ~e1.there_before /\ e1.po = "PO123"
        /\ e2.outcome = "write failed"

\* the name _archive_file gives to file p archived at time t
NameAt(p, t) == [stem |-> Stem(p), ts |-> t, suffix |-> Suffix(p)]

\* C22: archive_error on <stem><ext> with a message moves the file to
\* <stem>_<timestamp><ext> in the failure directory and writes the sidecar
\* <stem>_<timestamp>.error.txt holding the message; the original path no
\* longer exists (the move and the write of the sidecar succeeding).
C22_ArchiveError ==
    \A e \in Events("archive_error") :
        (e.msg # NoText /\ e.written) =>
            /\ e.returned = [dir |-> "error", name |-> NameAt(e.src, e.t)]
            /\ e.archived_there
            /\ ~e.source_there
            /\ e.src \notin inputDir
            /\ e.sidecar = [NameAt(e.src, e.t) EXCEPT !.suffix = ".error.txt"]
            /\ e.text = e.msg
            /\ At("error", e.sidecar) # {}

\* archive_error has returned after moving order.xml and writing its sidecar
C22_Witness ==
    \E e \in Events("archive_error") :
        /\ e.src = "order.xml"
        /\ e.msg = MsgValidation
        /\ e.written
        /\ e.returned.name.stem = "order"

\* C23: when the move of archive_error succeeds and the sidecar cannot be
\* written, archive_error does not raise: it returns the archived path and
\* the file is in the failure archive; a failure of the move itself is raised
\* to the caller, and nothing else ends archive_error with an exception.
C23_SidecarFailureSwallowed ==
    /\ \A e \in Events("archive_error") :
          (e.msg # NoText /\ ~e.written) =>
              /\ procs[e.proc].pc = "left"
              /\ e.returned = [dir |-> "error", name |-> NameAt(e.src, e.t)]
              /\ e.archived_there
              /\ ~e.source_there
    /\ \A i \in DOMAIN procs :
          procs[i].task = "fail" =>
              /\ procs[i].moved = "failed" => procs[i].pc = "raised"
              /\ procs[i].pc = "raised" => procs[i].moved = "failed"
              /\ procs[i].moved = "failed" =>
                    /\ procs[i].src \in inputDir
                    /\ \A e \in Events("archive_error") : e.proc # i

\* one archive_error returned although its sidecar could not be written, and
\* another was ended by the failure of its move
C23_Witness ==
    /\ \E e \in Events("archive_error") :
          e.proc = 1 /\ e.msg # NoText /\ ~e.written
    /\ procs[1].pc = "left"
    /\ procs[2].task = "fail"
    /\ procs[2].pc = "raised"

\* the start of run r of process p, and what that run deleted
StartOf(p, r) == CHOOSE e \in Events("start") : e.proc = p /\ e.run = r

Deleted(p, r) ==
    {e.entry : e \in {x \in Events("delete") : x.proc = p /\ x.run = r}}

FailedDeletions(p, r) ==
    {x \in Events("unlink_failed") : x.proc = p /\ x.run = r}

RECURSIVE SumOfSizes(_)
SumOfSizes(S) ==
    IF S = {} THEN 0
    ELSE LET e == CHOOSE x \in S : TRUE IN e.size + SumOfSizes(S \ {e})

\* the regular files directly inside the two archive directories of a
\* snapshot whose modification time is before the cutoff
OlderThan(snapshot, cutoff) ==
    {e \in snapshot.success \cup snapshot.error :
        e.kind = "file" /\ e.parent = "" /\ e.mtime < cutoff}

\* C24: cleanup_old_archives with dry_run false deletes only regular files
\* directly inside the two archive directories whose modification time is
\* strictly before the cutoff, never a subdirectory, a file inside one, or a
\* file at or after the cutoff; the count and the byte total it returns are
\* the number and the summed size of the files it deleted.
C24_CleanupDeletesOnlyOld ==
    /\ \A d \in Events("delete") :
          /\ d.entry.kind = "file"
          /\ d.entry.parent = ""
          /\ d.entry.mtime < StartOf(d.proc, d.run).cutoff
    /\ \A r \in Events("return") :
          ~r.dry_run =>
             LET before == StartOf(r.proc, r.run).before
                 gone == (before.success \cup before.error) \
                         (r.after.success \cup r.after.error)
             IN  /\ gone = Deleted(r.proc, r.run)
                 /\ gone \subseteq OlderThan(before, r.cutoff)
                 /\ r.count = Cardinality(gone)
                 /\ r.size = SumOfSizes(gone)

\* a cleanup of archives that hold every kind of entry has deleted two of
\* three old files, the third deletion having failed
C24_Witness ==
    \E r \in Events("return") :
        /\ ~r.dry_run
        /\ StartOf(r.proc, r.run).before =
              [success |-> SuccessCandidates, error |-> ErrorCandidates]
        /\ r.count = 2
        /\ FailedDeletions(r.proc, r.run) # {}

\* two cleanups that delete, run one after the other by the same process
TwoCleanups ==
    {pair \in Events("return") \X Events("return") :
        /\ pair[1].proc = pair[2].proc
        /\ pair[2].run = pair[1].run + 1
        /\ ~pair[1].dry_run /\ ~pair[2].dry_run}

\* C25 as stated: when cleanup_old_archives is run twice in a row with the
\* same retention and no file is added in between, the second run deletes no
\* file and returns (0, 0).
C25_Idempotent ==
    \A pair \in TwoCleanups :
        /\ Deleted(pair[2].proc, pair[2].run) = {}
        /\ pair[2].count = 0
        /\ pair[2].size = 0

\* C25, amended: when cleanup_old_archives is run twice with the same
\* retention, no file being added in between, the second run deletes only
\* files that have passed the cutoff since the first run began or whose
\* deletion failed in the first run; with the same cutoff and no failed
\* deletion in the first run it deletes nothing and returns (0, 0).
C25_IdempotentSameCutoff ==
    \A pair \in TwoCleanups :
        /\ \A e \in Deleted(pair[2].proc, pair[2].run) :
              \/ e.mtime >= pair[1].cutoff
              \/ \E x \in FailedDeletions(pair[1].proc, pair[1].run) :
                    x.name = e.name
        /\ (/\ pair[2].cutoff = pair[1].cutoff
            /\ FailedDeletions(pair[1].proc, pair[1].run) = {}) =>
              /\ Deleted(pair[2].proc, pair[2].run) = {}
              /\ pair[2].count = 0
              /\ pair[2].size = 0

\* a first cleanup deleted files, none of its deletions failed, and a second
\* one with the same cutoff has returned
C25_Witness ==
    \E pair \in TwoCleanups :
        /\ pair[1].count >= 2
        /\ pair[2].cutoff = pair[1].cutoff
        /\ FailedDeletions(pair[1].proc, pair[1].run) = {}

\* C26: cleanup_old_archives with dry_run true deletes nothing: both archive
\* directories hold after the call what they held before it.
C26_DryRunDeletesNothing ==
    /\ \A d \in Events("delete") : ~StartOf(d.proc, d.run).dry_run
    /\ \A r \in Events("return") :
          r.dry_run => r.after = StartOf(r.proc, r.run).before

\* a dry run has returned on archives that hold files older than the cutoff
C26_Witness ==
    \E r \in Events("return") :
        /\ r.dry_run
        /\ Cardinality(OlderThan(StartOf(r.proc, r.run).before, r.cutoff)) >= 2

\* C27: in a dry run the count that cleanup_old_archives returns, which the
\* cleanup command prints as "files would be deleted", is the number of files
\* older than the cutoff.
C27_DryRunCount ==
    \A r \in Events("return") :
        r.dry_run =>
            r.count =
                Cardinality(OlderThan(StartOf(r.proc, r.run).before, r.cutoff))

\* C28: in every interleaving of two cleanups, or of a cleanup and an archive
\* move, on the same archive directories no cleanup is ended by an exception,
\* and no archive move replaces a file archived before under the same name.
C28_ConcurrentSafe ==
    /\ \A e \in Events("raise") : e.task # "cleanup"
    /\ \A e \in Events("move") : ~e.replaced

\* C29: two runs that execute side by side on different input files write
\* no common file outside the archive directories: the responses they save
\* go to different files.
C29_NoSharedOutput ==
    \A e1, e2 \in Events("save_response") :
        (/\ e1.proc # e2.proc
         /\ e1.outcome = "saved"
         /\ e2.outcome = "saved") => e1.file # e2.file

\* C30: once post_purchase_order has returned, the run ends with the input
\* file in the success archive and not in the failure archive, whatever
\* happens in save_response and archive_success.
C30_AcceptedNeverFailed ==
    (pc = "done" /\ saveCalls >= 1) =>
        /\ InSuccessArchive(input_file)
        /\ ~InErrorArchive(input_file)

----
\* Properties of the retry loop and of the handlers of process_file.

\* the outcomes post_purchase_order retries
Transient(o) ==
    \/ o.kind \in {"Timeout", "ConnectionError"}
    \/ o.kind = "http" /\ o.status >= 500

\* the text of the APIError that describes transient outcome o
TransientMessage(o) ==
    IF o.kind = "Timeout"
    THEN <<"Request", "timeout", "after", SecondsText(timeout), "seconds">>
    ELSE IF o.kind = "ConnectionError"
    THEN <<"Connection", "error:">> \o o.text
    ELSE <<"Server", "error", "HTTP", StatusText(o.status), "Response:">>
         \o o.text

\* post_purchase_order has been left
AfterPost == pc \in {"h_api", "save", "archive", "h_outer", "done"}

\* C33: whatever mix of 5xx answers, timeouts and connection failures the
\* attempts meet, they are counted by one counter: the call sends at most
\* max_retries requests, and when it fails on a transient outcome it has
\* sent max_retries requests and raises the error of the last attempt.
C33_SharedAttemptCounter ==
    /\ attempt = Len(sent) + (IF pc = "post_send" THEN 1 ELSE 0)
    /\ sent # <<>> => Len(sent) <= max_retries
    /\ (failedStage = "post" /\ Transient(lastOutcome)) =>
          /\ Len(sent) = max_retries
          /\ stageErr = TransientMessage(lastOutcome)

\* three attempts met a server error, a timeout and a connection failure,
\* and the call raised the connection error
C33_Witness ==
    /\ pc = "done"
    /\ failedStage = "post"
    /\ max_retries = 3
    /\ outcomes = <<"5xx", "Timeout", "ConnectionError">>
    /\ Contains(stageErr, "Connection")

\* C34: post_purchase_order sleeps only between two attempts: not before
\* the first, not after the last, not after a terminal failure or a success;
\* a call that sent k requests has slept k-1 times.
C34_SleepsBetweenAttempts ==
    /\ sent = <<>> => sleeps = 0
    /\ pc \in {"post_loop", "post_send"} => sleeps = Len(sent)
    /\ pc = "post_sleep" =>
          /\ sleeps = Len(sent) - 1
          /\ Len(sent) < max_retries
          /\ Transient(lastOutcome)
    /\ (AfterPost /\ sent # <<>>) => sleeps = Len(sent) - 1

\* the third attempt of a call was answered with a success after two sleeps
C34_Witness ==
    /\ pc = "save"
    /\ Len(sent) = 3
    /\ sleeps = 2
    /\ outcomes[3] = "ok"

\* C35: with max_retries 0 or negative post_purchase_order sends no request
\* and raises an APIError; and under no configuration does it return a
\* response without having sent a request.
C35_NoAttemptsConfigured ==
    /\ pc \in {"save", "archive"} \/ saveCalls >= 1 => sent # <<>>
    /\ max_retries <= 0 =>
          /\ sent = <<>>
          /\ sleeps = 0
          /\ pc \notin {"post_send", "post_sleep", "save", "archive"}
          /\ saveCalls = 0
          /\ failedStage = "post" => stageErr = MsgExhausted
          /\ pc = "done" => failedStage # "none" /\ exitCode # EXIT_SUCCESS

\* a run configured with max_retries 0 reached the submission and failed
\* there without a request
C35_Witness ==
    /\ pc = "done"
    /\ max_retries = 0
    /\ failedStage = "post"
    /\ stageErr = MsgExhausted
    /\ sent = <<>>
    /\ exitCode = EXIT_API_ERROR

\* C36: a submission that failed on HTTP 400, on a server error or on a
\* business rejection returns EXIT_API_ERROR (3), whatever text the server
\* supplied.
C36_ExitCodeIgnoresServerText ==
    (/\ PostFailedOn({"http"})
     /\ \/ lastOutcome.status = 400
        \/ lastOutcome.status >= 500
        \/ lastOutcome.status = 200) =>
        exitCode = EXIT_API_ERROR

\* the latest attempt received HTTP 200 with a body that does not parse
Unparsed200 ==
    /\ lastOutcome.kind = "http"
    /\ lastOutcome.status = 200
    /\ ~lastOutcome.body.parses

\* C37: an HTTP 200 response whose body does not parse as XML is a success:
\* validate_response raises nothing, post_purchase_order returns the body,
\* and the run goes on to save the response and to archive the input as a
\* success; it ends otherwise only when the save or the move fails.
C37_UnparsedIsSuccess ==
    Unparsed200 =>
        /\ pc \in {"save", "archive", "h_outer", "done"}
        /\ failedStage \in {"none", "save", "archive_success"}
        /\ response_xml = lastOutcome.body
        /\ pc = "h_outer" => failedStage # "none"
        /\ (pc = "done" /\ failedStage = "none") =>
              /\ exitCode = EXIT_SUCCESS
              /\ saveCalls = 1
              /\ \E f \in outputDir : f.content = lastOutcome.body
              /\ InSuccessArchive(input_file)
              /\ ~InErrorArchive(input_file)

\* a run whose answer did not parse saved it and archived the input as a
\* success
C37_Witness ==
    /\ Unparsed200
    /\ pc = "done"
    /\ exitCode = EXIT_SUCCESS
    /\ InSuccessArchive(input_file)
    /\ outputDir # {}

\* the run is on a path validate_xml_file rejects: no file, or a file whose
\* first line does not start like XML
InputRejected ==
    /\ pc # "idle"
    /\ \/ input_file \notin InitialInput
       \/ input_file = "notes.txt"

\* C38: a run whose input validate_xml_file rejects generates no credential
\* and sends no request; it calls archive_error once, with the text of the
\* validation failure, and returns exit code 1.
C38_RejectedInput ==
    InputRejected =>
        /\ tokenCalls = 0
        /\ jwt_token = NoToken
        /\ sent = <<>>
        /\ pc \in {"validate", "h_outer", "done"}
        /\ pc # "validate" => failedStage = "validate"
        /\ pc = "done" =>
              /\ exitCode = EXIT_CONFIG_ERROR
              /\ archiveErrorCalls = <<MsgValidation>>
              /\ ~InSuccessArchive(input_file)

\* a text file that is not XML was rejected and moved to the failure archive
C38_Witness ==
    /\ InputRejected
    /\ input_file = "notes.txt"
    /\ pc = "done"
    /\ exitCode = EXIT_CONFIG_ERROR
    /\ InErrorArchive("notes.txt")
    /\ tokenCalls = 0

\* C39: when the archive_error call of the token handler or of the
\* submission handler raises, the run returns the exit code of the stage
\* that failed and has attempted the failure move once.
C39_StageCodeKept ==
    (pc = "done" /\ moveFailed /\ failedStage \in {"token", "post"}) =>
        /\ exitCode = IF failedStage = "token" THEN EXIT_AUTH_ERROR
                      ELSE ExitCodeForAPIError(stageErr)
        /\ Len(archiveErrorCalls) <= 1

----
\* Properties of the watch session.

\* response_PO123.xml is in the output directory and the current run has
\* not called save_response: an earlier run of the session saved it, and it
\* did so for order.xml, the only input that holds the order number PO123,
\* after the endpoint had accepted that order
AcceptedEarlier(p) ==
    /\ p = "order.xml"
    /\ saveCalls = 0
    /\ \E f \in outputDir : f.name = [id |-> "PO123", ts |-> 0]

\* C31: in a watch session no request is sent for an input file whose order
\* the endpoint accepted in an earlier run of the session, whatever the
\* save and archive steps of that run came to.
C31_AcceptedNotResubmitted ==
    (pc # "idle" /\ AcceptedEarlier(input_file)) => sent = <<>>

\* C32: in a watch session every XML file that is in the input directory is
\* eventually processed, also one that arrived under the name of a file the
\* session processed successfully before (as long as the session may still
\* start a run).
C32_EventuallyProcessed ==
    \A p \in ArrivingPaths :
        (p \in inputDir /\ pc = "idle") ~>
            ((pc # "idle" /\ input_file = p) \/ runs >= MaxRuns)

====
